---------------------------- MODULE Spec2Model ----------------------------
(***************************************************************************)
(* Black-Scholes pricing engine and implied-volatility solver of           *)
(* quantpricer (src/src/core: normals.py, bs.py, iv.py).                   *)
(*                                                                         *)
(* Numbers.  The code computes in IEEE-754 doubles.  Here a float is an    *)
(* integer count of units of 1/ONE, kept to five significant decimal       *)
(* digits: a small decimal floating-point format whose smallest positive   *)
(* value is one unit and whose overflow is Inf.  Every operation rounds    *)
(* its exact result to the nearest representable value, ties to even, as   *)
(* the doubles do.  The model therefore has what the doubles have - a      *)
(* relative precision, a smallest positive value, a saturating normal CDF, *)
(* an infinity - at a coarser grain.  The solver's small constants (1e-6,  *)
(* 1e-8, 1e-10, 1e-12) lie below that grain; they are carried as small     *)
(* counts of units that keep their order and their role (see SIGMA_LOW_0,  *)
(* SIGMA_LOW_1, ARB_EPS, VEGA_EPS).                                        *)
(*                                                                         *)
(* Exceptions.  A Python call either returns a float or raises; an outcome *)
(* is a record [exc, msg, val, calls]: exc = "none" and val the value, or  *)
(* exc the exception class and msg its message; calls lists the helpers    *)
(* the call invoked, in order.  The code raises ValueError for every error *)
(* of the spec's taxonomy; the message tells them apart.                   *)
(***************************************************************************)
EXTENDS Integers, Sequences, FiniteSets, TLC

VARIABLES
    fn,          \* the entry point being executed ("idle" before the first call)
    args,        \* its arguments
    out,         \* its outcome, [exc |-> "pending"] while it runs
    pc,          \* implied_vol_from_price: the position in the body
    sigma_low, sigma_high, f_low, f_high,   \* iv.py:125-154
    i,           \* the loop counter of the running phase
    sigma_guess, \* iv.py:156
    evals,       \* number of _price_function evaluations so far
    parked,      \* a second caller's call, suspended while this one runs
    _engine_ready,   \* backend/app/main.py:33
    _IDEMP_CACHE     \* backend/app/main.py:46, idempotencyKey -> response

\* The module-level state of the API process.
process == <<_engine_ready, _IDEMP_CACHE>>

vars == <<fn, args, out, pc, sigma_low, sigma_high, f_low, f_high, i,
          sigma_guess, evals, parked, process>>

-----------------------------------------------------------------------------
(* Fixed-point arithmetic standing for the doubles' *, /, sqrt, exp, log.  *)

ONE == 10000
HALF == ONE \div 2
Inf == 10^9

Abs(x) == IF x < 0 THEN -x ELSE x
Sgn(x) == IF x > 0 THEN 1 ELSE IF x < 0 THEN -1 ELSE 0
Max(a, b) == IF a >= b THEN a ELSE b
Min(a, b) == IF a <= b THEN a ELSE b
IsInf(x) == Abs(x) >= Inf

\* Round-half-even, the doubles' rounding: base plus a remainder rem out of m.
RoundEven(base, rem, m) ==
    IF 2 * rem > m \/ (2 * rem = m /\ base % 2 = 1) THEN base + 1 ELSE base

RoundTo(a, m) == m * RoundEven(a \div m, a % m, m)

\* The spacing of the representable values at a >= 0: five significant digits.
Ulp(a) ==
    IF a < 10^5 THEN 1
    ELSE IF a < 10^6 THEN 10
    ELSE IF a < 10^7 THEN 100
    ELSE IF a < 10^8 THEN 1000
    ELSE 10^4

\* The representable value nearest to a >= 0.
FlPos(a) == IF a >= Inf THEN Inf ELSE Min(Inf, RoundTo(a, Ulp(a)))

Fl(x) == Sgn(x) * FlPos(Abs(x))

\* a*b/ONE from the limbs a = ah*ONE + al, b = bh*ONE + bl, so that no
\* intermediate leaves 32 bits; overflow gives Inf.
MulLimbs(a, ah, al, bh, bl) ==
    IF bh > 0 /\ a >= Inf \div bh THEN Inf
    ELSE IF ah > 0 /\ bl > 0 /\ ah >= Inf \div bl THEN Inf
    ELSE FlPos(RoundEven(a * bh + ah * bl + (al * bl) \div ONE,
                         (al * bl) % ONE, ONE))

\* a*b/ONE of non-negative a, b.
MulPos(a, b) ==
    IF a >= Inf \/ b >= Inf THEN (IF a = 0 \/ b = 0 THEN 0 ELSE Inf)
    ELSE MulLimbs(a, a \div ONE, a % ONE, b \div ONE, b % ONE)

\* The doubles' a * b.
Mul(a, b) == Sgn(a) * Sgn(b) * MulPos(Abs(a), Abs(b))

\* The quotient from its integer part q and the remainders r1, r2 of two
\* base-100 digits of long division by b.
DivDigits(q, r1, r2, b) ==
    FlPos(RoundEven(q * ONE + (r1 \div b) * 100 + (r2 \div b), r2 % b, b))

\* a/b of non-negative a and positive b.
DivPos(a, b) ==
    IF a >= Inf THEN Inf
    ELSE IF b >= Inf THEN 0
    ELSE IF a \div b >= Inf \div ONE THEN Inf
    ELSE DivDigits(a \div b, (a % b) * 100, (((a % b) * 100) % b) * 100, b)

\* The doubles' a / b for b # 0 (the callers raise ZeroDivisionError).
Div(a, b) == Sgn(a) * Sgn(b) * DivPos(Abs(a), Abs(b))

\* The doubles' a - b and a + b; an infinite operand absorbs a finite one.
Sub(a, b) == IF IsInf(a) THEN a ELSE IF IsInf(b) THEN -b ELSE Fl(a - b)
Add(a, b) == IF IsInf(a) THEN a ELSE IF IsInf(b) THEN b ELSE Fl(a + b)

RECURSIVE SqrtSearch(_, _, _)
SqrtSearch(n, lo, hi) ==
    IF lo >= hi THEN lo
    ELSE IF ((lo + hi + 1) \div 2) * ((lo + hi + 1) \div 2) <= n
    THEN SqrtSearch(n, (lo + hi + 1) \div 2, hi)
    ELSE SqrtSearch(n, lo, ((lo + hi + 1) \div 2) - 1)

\* math.sqrt(x), x >= 0: the integer square root of x*ONE.
Sqrt(x) == SqrtSearch(x * ONE, 0, 46340)

\* e^k for k = 0..11 and e^(j/16) for j = 0..15, in units.
EXP_INT == <<10000, 27183, 73891, 200860, 545980, 1484100, 4034300, 10966000,
             29810000, 81031000, 220260000, 598740000>>
EXP_SIXTEENTH == <<10000, 10645, 11331, 12062, 12840, 13668, 14550, 15488,
                   16487, 17551, 18682, 19887, 21170, 22535, 23989, 25536>>

\* One Horner step of the Taylor series of exp.
ExpTerm(g, acc, n) == Add(ONE, Div(Mul(g, acc), n * ONE))

\* Three Taylor terms of exp(g), 0 <= g < 1/16.
ExpTaylor(g) == ExpTerm(g, ExpTerm(g, ExpTerm(g, ONE, 3), 2), 1)

\* exp(x), x >= 0: x = k + j/16 + g, the two tables and exp(g).
ExpNonNeg(x) ==
    IF x >= 12 * ONE THEN Inf
    ELSE Mul(Mul(EXP_INT[(x \div ONE) + 1],
                 EXP_SIXTEENTH[((x % ONE) \div 625) + 1]),
             ExpTaylor(x % 625))

\* exp(x) from e = exp(|x|).
ExpSigned(x, e) == IF x >= 0 THEN e ELSE Div(ONE, e)

\* math.exp(x); exp of less than -9 is below half a unit.
Exp(x) == IF -x >= 9 * ONE THEN 0 ELSE ExpSigned(x, ExpNonNeg(Abs(x)))

LN2 == 6931      \* ln 2, in units

RECURSIVE LogReduce(_, _)
\* x = m * 2^k with 0.75 <= m <= 1.5; the result is <<m, k>>.
LogReduce(x, k) ==
    IF x > 15000 THEN LogReduce((x + 1) \div 2, k + 1)
    ELSE IF x < 7500 THEN LogReduce(x * 2, k - 1)
    ELSE <<x, k>>

LogSeries(z2, acc, n) == Add(Div(ONE, n * ONE), Mul(z2, acc))

\* atanh(z)/z as a polynomial of z^2, four terms.
LogPoly(z2) ==
    LogSeries(z2, LogSeries(z2, LogSeries(z2, LogSeries(z2, 0, 7), 5), 3), 1)

\* atanh(z)
LogAtanh(z) == Mul(z, LogPoly(Mul(z, z)))

\* ln(m * 2^k) = k ln 2 + 2 atanh((m-1)/(m+1)) for mk = <<m, k>>.
LogOf(mk) ==
    Add(mk[2] * LN2, 2 * LogAtanh(Div(mk[1] - ONE, mk[1] + ONE)))

\* math.log(x), x > 0
Log(x) == LogOf(LogReduce(x, 0))

\* The polynomial of Abramowitz-Stegun 7.1.26 in t = 1/(1 + p*x).
ErfPoly(t) ==
    Mul(t, 2548 + Mul(t, -2845 + Mul(t, 14214 + Mul(t, -14531
                                                       + Mul(t, 10614)))))

\* math.erf(x) for 0 <= x; 1.0 from 6 on, where the doubles' erf is exactly
\* 1.0 too.
ErfPos(x) ==
    IF x >= 6 * ONE THEN ONE
    ELSE ONE - Mul(ErfPoly(Div(ONE, ONE + Mul(3276, x))), Exp(-Mul(x, x)))

\* math.erf is odd.
Erf(x) == Sgn(x) * ErfPos(Abs(x))

-----------------------------------------------------------------------------
(* Outcomes of a call.                                                     *)

Ret(v, cs) == [exc |-> "none", msg |-> "", val |-> v, calls |-> cs]
Raise(e, m, cs) == [exc |-> e, msg |-> m, val |-> 0, calls |-> cs]
Returned(o) == o.exc = "none"

-----------------------------------------------------------------------------
(* normals.py                                                              *)

SQRT2PI == 25066     \* sqrt(2*pi), in units
SQRT_2 == 14142      \* sqrt(2.0), in units

normal_pdf(x) == Div(Exp(Mul(Mul(-HALF, x), x)), SQRT2PI)

\* A faulty normal_cdf that loses the constant term (then the CDF of x and
\* of -x no longer sum to one).
normal_cdf_no_constant(x) == Mul(HALF, Erf(Div(x, SQRT_2)))

normal_cdf(x) == Mul(HALF, Add(ONE, Erf(Div(x, SQRT_2))))

-----------------------------------------------------------------------------
(* bs.py                                                                   *)

\* The quotient S / K and math.log of it, as d1 evaluates them.
d1_log(S, K) ==
    IF K = 0 THEN Raise("ZeroDivisionError", "float division by zero", <<>>)
    ELSE LET log_of(q) ==
                 IF q <= 0 THEN Raise("ValueError", "math domain error", <<>>)
                 ELSE Ret(Log(q), <<>>)
         IN  log_of(Div(S, K))

d1(S, K, r, sigma, T) ==
    IF T <= 0 THEN Ret(IF S >= K THEN Inf ELSE -Inf, <<>>)
    ELSE LET quotient(lg, den) ==
                 IF ~Returned(lg) THEN lg
                 ELSE IF den = 0
                 THEN Raise("ZeroDivisionError", "float division by zero",
                            <<>>)
                 ELSE Ret(Div(Add(lg.val,
                                  Mul(Add(r, Mul(Mul(HALF, sigma), sigma)),
                                      T)),
                              den), <<>>)
         IN  quotient(d1_log(S, K), Mul(sigma, Sqrt(T)))

\* A faulty d2 that adds sigma * sqrt(T) to d1 where it is to be subtracted.
d2_added(d1_value, sigma, T) ==
    IF T < 0 THEN Raise("ValueError", "math domain error", <<>>)
    ELSE Ret(Add(d1_value, Mul(sigma, Sqrt(T))), <<>>)

d2(d1_value, sigma, T) ==
    IF T < 0 THEN Raise("ValueError", "math domain error", <<>>)
    ELSE Ret(Sub(d1_value, Mul(sigma, Sqrt(T))), <<>>)

\* A faulty validation that tests the strike before the stock price.
_validate_inputs_strike_first(S, K, r, sigma, T) ==
    IF K <= 0 THEN Raise("ValueError", "Strike price must be positive", <<>>)
    ELSE IF S <= 0 THEN Raise("ValueError", "Stock price must be positive", <<>>)
    ELSE IF sigma < 0
         THEN Raise("ValueError", "Volatility must be non-negative", <<>>)
    ELSE IF T < 0
         THEN Raise("ValueError", "Time to expiration must be non-negative", <<>>)
    ELSE Ret(0, <<>>)

_validate_inputs(S, K, r, sigma, T) ==
    IF S <= 0 THEN Raise("ValueError", "Stock price must be positive", <<>>)
    ELSE IF K <= 0 THEN Raise("ValueError", "Strike price must be positive", <<>>)
    ELSE IF sigma < 0
         THEN Raise("ValueError", "Volatility must be non-negative", <<>>)
    ELSE IF T < 0
         THEN Raise("ValueError", "Time to expiration must be non-negative", <<>>)
    ELSE Ret(0, <<>>)

\* A faulty discounting that forgets the discount factor.
Discounted_undiscounted(K, r, T) == K

\* K * math.exp(-r * T)
Discounted(K, r, T) == Mul(K, Exp(Mul(-r, T)))

\* The regular case of price_call and price_put (bs.py:84-87, 114-117): d1,
\* d2 and the formula chosen by is_call; kd is K * math.exp(-r * T).
price_body(S, K, T, r, sigma, is_call) ==
    LET formula(a, b, kd) ==
            IF ~Returned(a)
            THEN Raise(a.exc, a.msg, <<"_validate_inputs", "d1">>)
            ELSE IF ~Returned(b)
            THEN Raise(b.exc, b.msg, <<"_validate_inputs", "d1", "d2">>)
            ELSE Ret(IF is_call
                     THEN Sub(Mul(S, normal_cdf(a.val)),
                              Mul(kd, normal_cdf(b.val)))
                     ELSE Sub(Mul(kd, normal_cdf(-b.val)),
                              Mul(S, normal_cdf(-a.val))),
                     <<"_validate_inputs", "d1", "d2", "normal_cdf",
                       "normal_cdf">>)
        with_d1(a) == formula(a, d2(a.val, sigma, T), Discounted(K, r, T))
    IN  with_d1(d1(S, K, r, sigma, T))

price_call(S, K, T, r, sigma) ==
    LET validated(chk) ==
            IF ~Returned(chk)
            THEN Raise(chk.exc, chk.msg, <<"_validate_inputs">>)
            ELSE IF T = 0
            THEN Ret(Max(0, Sub(S, K)), <<"_validate_inputs">>)
            ELSE IF sigma = 0
            THEN Ret(Max(0, Sub(S, Discounted(K, r, T))),
                     <<"_validate_inputs">>)
            ELSE price_body(S, K, T, r, sigma, TRUE)
    IN  validated(_validate_inputs(S, K, r, sigma, T))

price_put(S, K, T, r, sigma) ==
    LET validated(chk) ==
            IF ~Returned(chk)
            THEN Raise(chk.exc, chk.msg, <<"_validate_inputs">>)
            ELSE IF T = 0
            THEN Ret(Max(0, Sub(K, S)), <<"_validate_inputs">>)
            ELSE IF sigma = 0
            THEN Ret(Max(0, Sub(Discounted(K, r, T), S)),
                     <<"_validate_inputs">>)
            ELSE price_body(S, K, T, r, sigma, FALSE)
    IN  validated(_validate_inputs(S, K, r, sigma, T))

\* A faulty dispatcher that validates the numbers before it looks at the tag.
black_scholes_price_numbers_first(S, K, T, r, sigma, option_type) ==
    LET chk == _validate_inputs(S, K, r, sigma, T)
    IN  IF ~Returned(chk) THEN Raise(chk.exc, chk.msg, <<"_validate_inputs">>)
        ELSE IF option_type = "call" THEN price_call(S, K, T, r, sigma)
        ELSE IF option_type = "put" THEN price_put(S, K, T, r, sigma)
        ELSE Raise("ValueError", "option_type must be 'call' or 'put'", <<>>)

black_scholes_price(S, K, T, r, sigma, option_type) ==
    IF option_type = "call" THEN price_call(S, K, T, r, sigma)
    ELSE IF option_type = "put" THEN price_put(S, K, T, r, sigma)
    ELSE Raise("ValueError", "option_type must be 'call' or 'put'", <<>>)

-----------------------------------------------------------------------------
(* The calls a client makes.  Inputs are drawn from grids that hold invalid *)
(* values (negative, zero), both degenerate cases (T = 0, sigma = 0) and    *)
(* regular ones, in and out of the money.                                   *)

SGrid == {-ONE, 0, 9000, ONE, 12000}
KGrid == {-ONE, 0, ONE, 11000}
TGrid == {-ONE, 0, 2500, ONE}
RGrid == {-200, 0, 500}
SigmaGrid == {-2000, 0, 10, 2000, 8000}
TypeGrid == {"call", "put", "invalid"}

NoArgs == [S |-> 0, K |-> 0, T |-> 0, r |-> 0, sigma |-> 0,
           option_type |-> "", price |-> 0, tol |-> 0, max_iter |-> 0]
Pending == [exc |-> "pending", msg |-> "", val |-> 0, calls |-> <<>>]

PriceArgs(S, K, T, r, sigma, option_type) ==
    [NoArgs EXCEPT !.S = S, !.K = K, !.T = T, !.r = r, !.sigma = sigma,
                   !.option_type = option_type]

SolverIdle ==
    /\ pc = "idle"
    /\ UNCHANGED <<pc, sigma_low, sigma_high, f_low, f_high, i, sigma_guess,
                   evals, parked, process>>

\* The frame of a caller that has no call in progress.
IdleFrame ==
    [fn |-> "idle", args |-> NoArgs, out |-> Pending, pc |-> "idle",
     sigma_low |-> 0, sigma_high |-> 0, f_low |-> 0, f_high |-> 0, i |-> 0,
     sigma_guess |-> 0, evals |-> 0]

Init ==
    /\ fn = "idle"
    /\ args = NoArgs
    /\ out = Pending
    /\ pc = "idle"
    /\ sigma_low = 0
    /\ sigma_high = 0
    /\ f_low = 0
    /\ f_high = 0
    /\ i = 0
    /\ sigma_guess = 0
    /\ evals = 0
    /\ parked = IdleFrame
    /\ _engine_ready = FALSE
    /\ _IDEMP_CACHE = <<>>

CallPriceCall ==
    /\ fn = "idle"
    /\ \E S \in SGrid, K \in KGrid, T \in TGrid, r \in RGrid,
          sigma \in SigmaGrid :
           /\ fn' = "price_call"
           /\ args' = PriceArgs(S, K, T, r, sigma, "call")
           /\ out' = price_call(S, K, T, r, sigma)
    /\ SolverIdle

CallPricePut ==
    /\ fn = "idle"
    /\ \E S \in SGrid, K \in KGrid, T \in TGrid, r \in RGrid,
          sigma \in SigmaGrid :
           /\ fn' = "price_put"
           /\ args' = PriceArgs(S, K, T, r, sigma, "put")
           /\ out' = price_put(S, K, T, r, sigma)
    /\ SolverIdle

CallBlackScholesPrice ==
    /\ fn = "idle"
    /\ \E S \in SGrid, K \in KGrid, T \in TGrid, r \in RGrid,
          sigma \in SigmaGrid, option_type \in TypeGrid :
           /\ fn' = "black_scholes_price"
           /\ args' = PriceArgs(S, K, T, r, sigma, option_type)
           /\ out' = black_scholes_price(S, K, T, r, sigma, option_type)
    /\ SolverIdle

\* The caller has its outcome; the next call starts from scratch (the core
\* keeps nothing between calls).
Done ==
    /\ fn # "idle"
    /\ out.exc # "pending"
    /\ fn' = "idle"
    /\ args' = NoArgs
    /\ out' = Pending
    /\ pc' = "idle"
    /\ sigma_low' = 0
    /\ sigma_high' = 0
    /\ f_low' = 0
    /\ f_high' = 0
    /\ i' = 0
    /\ sigma_guess' = 0
    /\ evals' = 0
    /\ UNCHANGED <<parked, process>>

\* app.py: the dashboard prices the call and the put of one scenario and
\* checks their difference; the outcome's val is `difference`.
PARITY_TOL == 3     \* tolerance = 1e-6 (app.py:27, test_bs.py:79)

check_put_call_parity(call_price, put_price, S, K, r, T) ==
    LET result(difference) ==
            [tolerance_met |-> difference < PARITY_TOL,
             difference |-> difference]
    IN  result(Abs(Sub(Sub(call_price, put_price),
                       Sub(S, Mul(K, Exp(Mul(-r, T)))))))

\* Spot and strike of the parity scenarios: near one, and a hundred times
\* larger (a rounding unit of a price is then a hundred times larger too).
ParitySGrid == {9000, ONE, 12000, 1234500}
ParityKGrid == {ONE, 11000, 1000300}

CallCheckParity ==
    /\ fn = "idle"
    /\ \E S \in ParitySGrid, K \in ParityKGrid, T \in TGrid, r \in RGrid,
          sigma \in SigmaGrid :
           \E c \in {price_call(S, K, T, r, sigma)},
              q \in {price_put(S, K, T, r, sigma)} :
               /\ Returned(c)
               /\ Returned(q)
               /\ fn' = "check_put_call_parity"
               /\ args' = PriceArgs(S, K, T, r, sigma, "both")
               /\ out' = Ret(check_put_call_parity(c.val, q.val, S, K, r,
                                                   T).difference,
                             c.calls \o q.calls)
    /\ SolverIdle

NextPrice ==
    \/ CallPriceCall
    \/ CallPricePut
    \/ CallBlackScholesPrice
    \/ CallCheckParity
    \/ Done

SpecPrice == Init /\ [][NextPrice]_vars

-----------------------------------------------------------------------------
(* Claims about the pricing engine, checked under SpecPrice.               *)

IsPriceFn == fn \in {"price_call", "price_put"}

\* The first field, in the order S, K, sigma, T, that violates its constraint.
FirstInvalid(a) ==
    IF a.S <= 0 THEN "S"
    ELSE IF a.K <= 0 THEN "K"
    ELSE IF a.sigma < 0 THEN "sigma"
    ELSE IF a.T < 0 THEN "T"
    ELSE "none"

\* The field a validation message names.
FieldNamed(msg) ==
    CASE msg = "Stock price must be positive" -> "S"
      [] msg = "Strike price must be positive" -> "K"
      [] msg = "Volatility must be non-negative" -> "sigma"
      [] msg = "Time to expiration must be non-negative" -> "T"
      [] OTHER -> "?"

\* C1: price_call and price_put reject every input with S <= 0, K <= 0,
\* sigma < 0 or T < 0 with a ValueError naming the first violated field in the
\* order S, K, sigma, T, before anything but the validation has run; no price
\* is returned.
C1_ValidationFirst ==
    (IsPriceFn /\ FirstInvalid(args) # "none")
        => /\ out.exc = "ValueError"
           /\ FieldNamed(out.msg) = FirstInvalid(args)
           /\ out.calls = <<"_validate_inputs">>

\* S < 0 together with T = 0 and with a second invalid field (K <= 0): the
\* failure reported is the stock price, not an intrinsic value.
C1_Witness ==
    /\ fn = "price_call"
    /\ args.S < 0 /\ args.K <= 0 /\ args.T = 0
    /\ out.exc = "ValueError"
    /\ out.msg = "Stock price must be positive"

Valid(a) == FirstInvalid(a) = "none"

Intrinsic(a, is_call) ==
    IF is_call THEN Max(0, Sub(a.S, a.K)) ELSE Max(0, Sub(a.K, a.S))

Forward(a, is_call) ==
    LET kd == Mul(a.K, Exp(Mul(-a.r, a.T)))
    IN  IF is_call THEN Max(0, Sub(a.S, kd)) ELSE Max(0, Sub(kd, a.S))

\* C2: for valid inputs the price is exactly the intrinsic value when T = 0
\* (whatever sigma is) and exactly the discounted-forward value when T > 0 and
\* sigma = 0; d1 and d2 are invoked in neither case.
C2_DegenerateShortcuts ==
    (IsPriceFn /\ Valid(args) /\ (args.T = 0 \/ args.sigma = 0))
        => /\ Returned(out)
           /\ out.val = IF args.T = 0 THEN Intrinsic(args, fn = "price_call")
                        ELSE Forward(args, fn = "price_call")
           /\ \A n \in 1..Len(out.calls) : out.calls[n] \notin {"d1", "d2"}

\* A put at expiry with sigma = 0 as well, in the money: the T test decides.
C2_Witness ==
    /\ fn = "price_put"
    /\ Valid(args) /\ args.T = 0 /\ args.sigma = 0 /\ args.K > args.S
    /\ out.val = Sub(args.K, args.S)
    /\ out.val > 0

\* The magnitude below which every multiple of a unit is representable, so
\* that a price carries a rounding error of at most a unit.
Moderate(x) == Abs(x) < 10 * ONE

C4_Dispatch ==
    fn = "black_scholes_price"
        => out = CASE args.option_type = "call"
                        -> price_call(args.S, args.K, args.T, args.r, args.sigma)
                   [] args.option_type = "put"
                        -> price_put(args.S, args.K, args.T, args.r, args.sigma)
                   [] OTHER
                        -> Raise("ValueError",
                                 "option_type must be 'call' or 'put'", <<>>)

\* An unknown tag together with invalid S, K, sigma and T.
C4_Witness ==
    /\ fn = "black_scholes_price"
    /\ args.option_type = "invalid"
    /\ args.S <= 0 /\ args.K <= 0 /\ args.sigma < 0 /\ args.T < 0
    /\ out.exc = "ValueError"
    /\ out.msg = "option_type must be 'call' or 'put'"
    /\ out.calls = <<>>

-----------------------------------------------------------------------------
(* iv.py                                                                   *)

SIGMA_LOW_0 == 100          \* sigma_low = 1e-6
SIGMA_HIGH_0 == 5 * ONE     \* sigma_high = 5.0
SIGMA_LOW_1 == 10           \* sigma_low = 1e-8, the first widening
SIGMA_HIGH_1 == 10 * ONE    \* sigma_high = 10.0, the second widening
ARB_EPS == 1                \* the slack 1e-10 of the no-arbitrage bounds
VEGA_EPS == 1               \* the vega 1e-12 below which Newton gives up

\* An exception whose message interpolates a number: val carries it.
RaiseVal(e, m, v, cs) == [exc |-> e, msg |-> m, val |-> v, calls |-> cs]

OptionType(is_call) == IF is_call THEN "call" ELSE "put"

_price_function(S, K, T, r, sigma, option_type, target_price) ==
    LET difference(calculated_price) ==
            IF ~Returned(calculated_price) THEN calculated_price
            ELSE Ret(Sub(calculated_price.val, target_price),
                     calculated_price.calls)
    IN  IF option_type = "call"
        THEN difference(price_call(S, K, T, r, sigma))
        ELSE difference(price_put(S, K, T, r, sigma))

_vega_function(S, K, T, r, sigma) ==
    IF T <= 0 \/ sigma <= 0 THEN Ret(0, <<>>)
    ELSE LET vega(d1_val) ==
                 IF ~Returned(d1_val) THEN d1_val
                 ELSE Ret(Mul(Mul(S, Sqrt(T)), normal_pdf(d1_val.val)),
                          <<"d1">>)
         IN  vega(d1(S, K, r, sigma, T))

upper_bound(S, K, T, r, option_type) ==
    IF option_type = "call" THEN S ELSE Mul(K, Exp(Mul(-r, T)))

lower_bound(S, K, T, r, option_type) ==
    LET over(kd) == IF option_type = "call" THEN Max(0, Sub(S, kd))
                    ELSE Max(0, Sub(kd, S))
    IN  over(Mul(K, Exp(Mul(-r, T))))

intrinsic(S, K, option_type) ==
    IF option_type = "call" THEN Max(0, Sub(S, K)) ELSE Max(0, Sub(K, S))

\* A faulty bounds check without the slack on the lower bound.
_check_no_arbitrage_bounds_no_slack(S, K, T, r, option_type, target_price) ==
    LET compare(upper, lower) ==
            IF target_price > Add(upper, ARB_EPS)
            THEN RaiseVal("ValueError",
                     "Price {target_price} exceeds upper bound {upper_bound}",
                     upper, <<>>)
            ELSE IF target_price < lower
            THEN RaiseVal("ValueError",
                     "Price {target_price} below lower bound {lower_bound}",
                     lower, <<>>)
            ELSE Ret(0, <<>>)
    IN  IF T <= 0
        THEN IF Abs(Sub(target_price, intrinsic(S, K, option_type))) > ARB_EPS
             THEN RaiseVal("ValueError",
                      "Price {target_price} is outside no-arbitrage bounds for T=0",
                      target_price, <<>>)
             ELSE Ret(0, <<>>)
        ELSE compare(upper_bound(S, K, T, r, option_type),
                     lower_bound(S, K, T, r, option_type))

\* A faulty bounds check that accepts any price at or past expiry.
_check_no_arbitrage_bounds_any_at_expiry(S, K, T, r, option_type, target_price) ==
    LET compare(upper, lower) ==
            IF target_price > Add(upper, ARB_EPS)
            THEN RaiseVal("ValueError",
                     "Price {target_price} exceeds upper bound {upper_bound}",
                     upper, <<>>)
            ELSE IF target_price < Sub(lower, ARB_EPS)
            THEN RaiseVal("ValueError",
                     "Price {target_price} below lower bound {lower_bound}",
                     lower, <<>>)
            ELSE Ret(0, <<>>)
    IN  IF T <= 0
        THEN Ret(0, <<>>)
        ELSE compare(upper_bound(S, K, T, r, option_type),
                     lower_bound(S, K, T, r, option_type))

_check_no_arbitrage_bounds(S, K, T, r, option_type, target_price) ==
    LET compare(upper, lower) ==
            IF target_price > Add(upper, ARB_EPS)
            THEN RaiseVal("ValueError",
                     "Price {target_price} exceeds upper bound {upper_bound}",
                     upper, <<>>)
            ELSE IF target_price < Sub(lower, ARB_EPS)
            THEN RaiseVal("ValueError",
                     "Price {target_price} below lower bound {lower_bound}",
                     lower, <<>>)
            ELSE Ret(0, <<>>)
    IN  IF T <= 0
        THEN IF Abs(Sub(target_price, intrinsic(S, K, option_type))) > ARB_EPS
             THEN RaiseVal("ValueError",
                      "Price {target_price} is outside no-arbitrage bounds for T=0",
                      target_price, <<>>)
             ELSE Ret(0, <<>>)
        ELSE compare(upper_bound(S, K, T, r, option_type),
                     lower_bound(S, K, T, r, option_type))

\* A faulty sign test that counts a zero product as positive.
SameSign_or_zero(a, b) == Sgn(a) * Sgn(b) >= 0

\* f_low * f_high > 0 (and f_mid * f_low > 0): the doubles' product of two
\* price differences has the sign of the exact product.
SameSign(a, b) == Sgn(a) * Sgn(b) > 0

\* A faulty midpoint that forgets to halve.
Midpoint_not_halved(lo, hi) == Add(lo, hi)

\* (sigma_low + sigma_high) / 2
Midpoint(lo, hi) == Div(Add(lo, hi), 2 * ONE)

-----------------------------------------------------------------------------
(* implied_vol_from_price, one step at a time: the entry (iv.py:118-126),  *)
(* the bracketing (128-140), one bisection iteration (143-154), the        *)
(* hand-over (156), one Newton iteration (159-177), the final raise (179). *)
(* pc is the position in the body; a pc beginning with "return" or "raise" *)
(* tells the statement that ended the call.                                *)

IVSGrid == {0, 9000, ONE, 1234500}
IVKGrid == {ONE, 1000300}
\* Maturities: past, at expiry, and two whose square root is at least one, so
\* that sigma * sqrt(T) of a positive sigma is positive as it is in doubles.
IVTGrid == {-ONE, 0, ONE, 4 * ONE}
IVRGrid == {0, 500}
TOL_DEFAULT == 3            \* tol = 1e-8, the default
\* Iteration budgets: one too small for the bisection to finish, and one that
\* lets it narrow the bracket down to adjacent values, as the default 100
\* does for doubles.
MaxIterSmall == 2
MaxIterLarge == 20
TolGrid == {1, TOL_DEFAULT}
MaxIterGrid == {MaxIterSmall, MaxIterLarge}
RoundTripSigmas == {30, 500, 2000, 8000, 30000}

\* Target prices around the bounds of the scenario and between them.
TargetPrices(S, K, T, r, option_type) ==
    LET around(lb, ub) ==
            {Sub(lb, 2), Sub(lb, 1), lb, Add(lb, 1), Add(lb, 700), Sub(ub, 1),
             ub, Add(ub, 1), Add(ub, 2)}
    IN  around(IF T <= 0 THEN intrinsic(S, K, option_type)
               ELSE lower_bound(S, K, T, r, option_type),
               upper_bound(S, K, T, r, option_type))

IVArgs(price, S, K, r, T, is_call, tol, max_iter, sigma) ==
    [S |-> S, K |-> K, T |-> T, r |-> r, sigma |-> sigma,
     option_type |-> OptionType(is_call), price |-> price, tol |-> tol,
     max_iter |-> max_iter]

\* iv.py:118-126.  sigma is the volatility the target was priced with when
\* the call is a round trip, and 0 otherwise (it is no argument of the call).
Enter(price, S, K, r, T, is_call, tol, max_iter, sigma) ==
    \E chk \in {_check_no_arbitrage_bounds(S, K, T, r, OptionType(is_call),
                                           price)} :
        /\ fn' = "implied_vol_from_price"
        /\ args' = IVArgs(price, S, K, r, T, is_call, tol, max_iter, sigma)
        /\ IF ~Returned(chk)
           THEN /\ out' = chk
                /\ pc' = "raise_bounds"
                /\ UNCHANGED <<sigma_low, sigma_high>>
           ELSE IF T <= 0
           THEN /\ out' = Ret(0, <<>>)
                /\ pc' = "return_expiry"
                /\ UNCHANGED <<sigma_low, sigma_high>>
           ELSE /\ out' = Pending
                /\ pc' = "bracket"
                /\ sigma_low' = SIGMA_LOW_0
                /\ sigma_high' = SIGMA_HIGH_0
        /\ UNCHANGED <<f_low, f_high, i, sigma_guess, evals, parked, process>>

CallImpliedVol ==
    /\ fn = "idle"
    /\ \E S \in IVSGrid, K \in IVKGrid, T \in IVTGrid, r \in IVRGrid,
          is_call \in BOOLEAN, tol \in TolGrid, max_iter \in MaxIterGrid :
           \E price \in TargetPrices(S, K, T, r, OptionType(is_call)) :
               Enter(price, S, K, r, T, is_call, tol, max_iter, 0)

\* test_iv.py:19-43: the target is the price of a known volatility, and tol
\* and max_iter are left to their defaults.
CallRoundTrip ==
    /\ fn = "idle"
    /\ \E S \in IVSGrid, K \in IVKGrid, T \in IVTGrid, r \in IVRGrid,
          is_call \in BOOLEAN, sigma \in RoundTripSigmas :
           \E p \in {black_scholes_price(S, K, T, r, sigma,
                                         OptionType(is_call))} :
               /\ Returned(p)
               /\ Enter(p.val, S, K, r, T, is_call, TOL_DEFAULT, MaxIterLarge,
                        sigma)

\* f(sigma) of the running call.
F(sigma) ==
    _price_function(args.S, args.K, args.T, args.r, sigma, args.option_type,
                    args.price)

\* The call ends by an exception that a helper raised.
Propagate(o, n) ==
    /\ out' = o
    /\ pc' = "raise_helper"
    /\ evals' = evals + n
    /\ UNCHANGED <<process, parked, fn, args, sigma_low, sigma_high, f_low, f_high, i,
                   sigma_guess>>

Bracketed(lo, hi, fl, fh, n) ==
    /\ pc' = "bisect"
    /\ sigma_low' = lo
    /\ sigma_high' = hi
    /\ f_low' = fl
    /\ f_high' = fh
    /\ i' = 0
    /\ evals' = evals + n
    /\ UNCHANGED <<process, parked, fn, args, out, sigma_guess>>

\* The four bracket ends the bracketing may evaluate f at.
BracketEnds == {SIGMA_LOW_0, SIGMA_HIGH_0, SIGMA_LOW_1, SIGMA_HIGH_1}

\* iv.py:128-140; f[s] is f at the bracket end s, evals counts the ends the
\* code evaluates.
Bracket ==
    /\ pc = "bracket"
    /\ \E f \in {[s \in BracketEnds |-> F(s)]} :
           IF ~Returned(f[SIGMA_LOW_0]) THEN Propagate(f[SIGMA_LOW_0], 1)
           ELSE IF ~Returned(f[SIGMA_HIGH_0]) THEN Propagate(f[SIGMA_HIGH_0], 2)
           ELSE IF ~SameSign(f[SIGMA_LOW_0].val, f[SIGMA_HIGH_0].val)
           THEN Bracketed(SIGMA_LOW_0, SIGMA_HIGH_0, f[SIGMA_LOW_0].val,
                          f[SIGMA_HIGH_0].val, 2)
           ELSE IF ~Returned(f[SIGMA_LOW_1]) THEN Propagate(f[SIGMA_LOW_1], 3)
           ELSE IF ~SameSign(f[SIGMA_LOW_1].val, f[SIGMA_HIGH_0].val)
           THEN Bracketed(SIGMA_LOW_1, SIGMA_HIGH_0, f[SIGMA_LOW_1].val,
                          f[SIGMA_HIGH_0].val, 3)
           ELSE IF ~Returned(f[SIGMA_HIGH_1]) THEN Propagate(f[SIGMA_HIGH_1], 4)
           ELSE IF ~SameSign(f[SIGMA_LOW_1].val, f[SIGMA_HIGH_1].val)
           THEN Bracketed(SIGMA_LOW_1, SIGMA_HIGH_1, f[SIGMA_LOW_1].val,
                          f[SIGMA_HIGH_1].val, 4)
           ELSE /\ out' = Raise("ValueError",
                                "Cannot find valid volatility bracket", <<>>)
                /\ pc' = "raise_bracket"
                /\ sigma_low' = SIGMA_LOW_1
                /\ sigma_high' = SIGMA_HIGH_1
                /\ f_low' = f[SIGMA_LOW_1].val
                /\ f_high' = f[SIGMA_HIGH_1].val
                /\ evals' = evals + 4
                /\ UNCHANGED <<process, parked, fn, args, i, sigma_guess>>

\* iv.py:143-154, one iteration of the first loop.
BisectStep ==
    /\ pc = "bisect"
    /\ i < args.max_iter
    /\ \E sigma_mid \in {Midpoint(sigma_low, sigma_high)} :
        \E f_mid \in {F(sigma_mid)} :
           IF ~Returned(f_mid) THEN Propagate(f_mid, 1)
           ELSE IF Abs(f_mid.val) < args.tol
           THEN /\ out' = Ret(sigma_mid, <<>>)
                /\ pc' = "return_bisect"
                /\ evals' = evals + 1
                /\ UNCHANGED <<process, parked, fn, args, sigma_low, sigma_high, f_low, f_high,
                               i, sigma_guess>>
           ELSE /\ IF SameSign(f_mid.val, f_low)
                   THEN /\ sigma_low' = sigma_mid
                        /\ f_low' = f_mid.val
                        /\ UNCHANGED <<sigma_high, f_high>>
                   ELSE /\ sigma_high' = sigma_mid
                        /\ f_high' = f_mid.val
                        /\ UNCHANGED <<sigma_low, f_low>>
                /\ i' = i + 1
                /\ evals' = evals + 1
                /\ UNCHANGED <<process, parked, fn, args, out, pc, sigma_guess>>

\* A faulty hand-over that starts the bisection again instead of going on.
BisectEnd_retry ==
    /\ pc = "bisect"
    /\ i >= args.max_iter
    /\ i' = 0
    /\ UNCHANGED <<process, parked, fn, args, out, pc, sigma_low, sigma_high, f_low, f_high,
                   sigma_guess, evals>>

\* iv.py:156, the first loop has run max_iter times.
BisectEnd ==
    /\ pc = "bisect"
    /\ i >= args.max_iter
    /\ sigma_guess' = Midpoint(sigma_low, sigma_high)
    /\ pc' = "newton"
    /\ i' = 0
    /\ UNCHANGED <<process, parked, fn, args, out, sigma_low, sigma_high, f_low, f_high, evals>>

NewtonReturn(v, where) ==
    /\ out' = Ret(v, <<>>)
    /\ pc' = where
    /\ evals' = evals + 1
    /\ UNCHANGED <<process, parked, fn, args, sigma_low, sigma_high, f_low, f_high, i,
                   sigma_guess>>

\* A faulty update that keeps a step that is not positive.
NewtonUpdate_unguarded(guess, f_val, vega_val) ==
    Sub(guess, Div(f_val, vega_val))

\* iv.py:169-172: the Newton update of sigma_guess, halved instead when it
\* leaves the positive volatilities.
NewtonUpdate(guess, f_val, vega_val) ==
    LET positive(sigma_new) ==
            IF sigma_new <= 0 THEN Div(guess, 2 * ONE) ELSE sigma_new
    IN  positive(Sub(guess, Div(f_val, vega_val)))

\* iv.py:159-177, one iteration of the second loop.
NewtonStep ==
    /\ pc = "newton"
    /\ i < args.max_iter
    /\ \E f_val \in {F(sigma_guess)},
          vega_val \in {_vega_function(args.S, args.K, args.T, args.r,
                                       sigma_guess)} :
           IF ~Returned(f_val) THEN Propagate(f_val, 1)
           ELSE IF Abs(f_val.val) < args.tol
           THEN NewtonReturn(sigma_guess, "return_newton_f")
           ELSE IF ~Returned(vega_val) THEN Propagate(vega_val, 1)
           ELSE IF Abs(vega_val.val) < VEGA_EPS
           THEN NewtonReturn(Midpoint(sigma_low, sigma_high), "return_vega")
           ELSE \E sigma_new \in {NewtonUpdate(sigma_guess, f_val.val,
                                               vega_val.val)} :
                    IF Abs(Sub(sigma_new, sigma_guess)) < args.tol
                    THEN NewtonReturn(sigma_new, "return_step")
                    ELSE /\ sigma_guess' = sigma_new
                         /\ i' = i + 1
                         /\ evals' = evals + 1
                         /\ UNCHANGED <<process, parked, fn, args, out, pc, sigma_low,
                                        sigma_high, f_low, f_high>>

\* iv.py:179, the second loop has run max_iter times.
NewtonEnd ==
    /\ pc = "newton"
    /\ i >= args.max_iter
    /\ out' = RaiseVal("ValueError",
                       "Failed to converge after {max_iter} iterations",
                       args.max_iter, <<>>)
    /\ pc' = "raise_converge"
    /\ UNCHANGED <<process, parked, fn, args, sigma_low, sigma_high, f_low, f_high, i,
                   sigma_guess, evals>>

NextIV ==
    \/ CallImpliedVol
    \/ CallRoundTrip
    \/ Bracket
    \/ BisectStep
    \/ BisectEnd
    \/ NewtonStep
    \/ NewtonEnd
    \/ Done

SpecIV == Init /\ [][NextIV]_vars

-----------------------------------------------------------------------------
(* Claims about the implied-volatility solver.                             *)

IsIV == fn = "implied_vol_from_price"
Settled == out.exc # "pending"

\* The bounds of the running call.
UB == upper_bound(args.S, args.K, args.T, args.r, args.option_type)
LB == lower_bound(args.S, args.K, args.T, args.r, args.option_type)

MsgUpper == "Price {target_price} exceeds upper bound {upper_bound}"
MsgLower == "Price {target_price} below lower bound {lower_bound}"
MsgExpiry == "Price {target_price} is outside no-arbitrage bounds for T=0"
MsgConverge == "Failed to converge after {max_iter} iterations"

\* C5: with T > 0 a target price above the upper bound by more than the slack
\* fails at once with the upper-bound message and the bound's value, one below
\* the lower bound by more than the slack with the lower-bound message and
\* value, in both cases before any price is evaluated; a target inside the
\* widened interval never ends in a bounds error.
C5_BoundsBeforePricing ==
    (IsIV /\ args.T > 0)
        => IF args.price - UB > ARB_EPS
           THEN /\ out = RaiseVal("ValueError", MsgUpper, UB, <<>>)
                /\ pc = "raise_bounds"
                /\ evals = 0
           ELSE IF LB - args.price > ARB_EPS
           THEN /\ out = RaiseVal("ValueError", MsgLower, LB, <<>>)
                /\ pc = "raise_bounds"
                /\ evals = 0
           ELSE /\ pc # "raise_bounds"
                /\ out.msg \notin {MsgUpper, MsgLower, MsgExpiry}

\* A put whose target lies two units under a positive lower bound.
C5_Witness ==
    /\ IsIV /\ args.T > 0 /\ args.option_type = "put" /\ args.S > 0
    /\ LB > 0 /\ LB - args.price = 2
    /\ out.msg = MsgLower /\ out.val = LB
    /\ evals = 0

\* C6: with T <= 0 the call returns exactly 0 without bracketing or iterating
\* if and only if the target is within the slack of the intrinsic value;
\* otherwise it fails with the bounds error of T = 0 and returns nothing.
C6_ExpiryShortcut ==
    (IsIV /\ args.T <= 0)
        => IF Abs(args.price - intrinsic(args.S, args.K, args.option_type))
                  <= ARB_EPS
           THEN /\ out = Ret(0, <<>>)
                /\ pc = "return_expiry"
                /\ evals = 0 /\ i = 0
           ELSE /\ out = RaiseVal("ValueError", MsgExpiry, args.price, <<>>)
                /\ pc = "raise_bounds"
                /\ evals = 0 /\ i = 0

\* Past expiry, in the money, the target one unit off the intrinsic value.
C6_Witness ==
    /\ IsIV /\ args.T < 0 /\ args.S > 0
    /\ intrinsic(args.S, args.K, args.option_type) > 0
    /\ args.price = intrinsic(args.S, args.K, args.option_type) + 1
    /\ out = Ret(0, <<>>)
    /\ pc = "return_expiry"

\* f at the returned volatility.
Reprice == F(out.val)

\* C7 as stated, for T > 0 and the default tol and budget: every value the
\* solver returns is non-negative and re-prices to the target within tol.
\* Refuted: the step-size exit and the near-zero-vega exit of the Newton loop
\* return without looking at f.
C7_ReturnedReprices ==
    (/\ IsIV /\ Returned(out) /\ args.T > 0
     /\ args.tol = TOL_DEFAULT /\ args.max_iter = MaxIterLarge)
        => /\ out.val >= 0
           /\ Returned(Reprice)
           /\ Abs(Reprice.val) < args.tol

ROUND_TRIP_TOL == 10        \* the 1e-6 of the round trip

\* vega at the volatility the target was priced with.
VegaAtSigma ==
    _vega_function(args.S, args.K, args.T, args.r, args.sigma).val

IsRoundTrip == IsIV /\ args.sigma > 0

Rank ==
    CASE pc = "bracket" -> 2 * args.max_iter + 3
      [] pc = "bisect"  -> (args.max_iter - i) + args.max_iter + 2
      [] pc = "newton"  -> (args.max_iter - i) + 1
      [] OTHER          -> 0

\* C9: the call terminates.  A running call is at a position that has a next
\* step, and each step lowers Rank, which is never negative: each loop runs at
\* most max_iter times and f is evaluated at most 4 + 2 * max_iter times.
\* From the loops the call goes on to a return or to the final raise only -
\* no other failure, no way back to the bracketing or from the Newton loop to
\* the bisection.  The final raise carries max_iter in its message and comes
\* after both loops ran max_iter times.
C9_Terminates ==
    /\ [](IsIV => /\ Rank >= 0
                  /\ i <= args.max_iter
                  /\ evals <= 4 + 2 * args.max_iter
                  /\ (~Settled => pc \in {"bracket", "bisect", "newton"}))
    /\ [](pc = "raise_converge"
            => /\ out = RaiseVal("ValueError", MsgConverge, args.max_iter, <<>>)
               /\ i = args.max_iter
               /\ evals >= 2 * args.max_iter)
    /\ [][/\ (IsIV /\ ~Settled) => Rank' < Rank
          /\ pc = "bisect"
             => pc' \in {"bisect", "newton", "return_bisect"}
          /\ pc = "newton"
             => pc' \in {"newton", "return_newton_f", "return_vega",
                         "return_step", "raise_converge"}]_vars

\* Both loops exhausted under the large budget.
C9_Witness ==
    /\ pc = "raise_converge"
    /\ args.max_iter = MaxIterLarge
    /\ i = MaxIterLarge
    /\ evals >= 2 * MaxIterLarge + 2

\* C10 as stated: with T > 0, valid spot and strike and the default tol and
\* budget, a target exactly at the lower bound makes the call return a
\* non-negative volatility.  Refuted at the forward money (S = K*e^(-rT)),
\* where the bound is 0 and f is positive at every bracket end.
C10_LowerBoundReturns ==
    (/\ IsIV /\ Settled /\ args.T > 0 /\ args.S > 0 /\ args.K > 0
     /\ args.price = LB
     /\ args.tol = TOL_DEFAULT /\ args.max_iter = MaxIterLarge)
        => /\ Returned(out)
           /\ out.val >= 0

-----------------------------------------------------------------------------
(* greeks.py                                                               *)

\* A faulty delta whose put is the call's delta negated.
delta_put_negated(S, K, T, r, sigma, option_type) ==
    IF T <= 0
    THEN Ret(IF option_type = "call"
             THEN (IF S > K THEN ONE ELSE IF S = K THEN HALF ELSE 0)
             ELSE (IF S < K THEN -ONE ELSE IF S = K THEN -HALF ELSE 0), <<>>)
    ELSE IF sigma <= 0
    THEN Ret(IF option_type = "call"
             THEN (IF S > Discounted(K, r, T) THEN ONE ELSE 0)
             ELSE (IF S < Discounted(K, r, T) THEN -ONE ELSE 0), <<>>)
    ELSE LET regular(d1_val) ==
                 IF ~Returned(d1_val) THEN d1_val
                 ELSE Ret(IF option_type = "call"
                          THEN normal_cdf(d1_val.val)
                          ELSE -normal_cdf(d1_val.val),
                          <<"d1", "normal_cdf">>)
         IN  regular(d1(S, K, r, sigma, T))

\* A faulty delta that forgets the at-the-money half at expiry.
delta_no_half(S, K, T, r, sigma, option_type) ==
    IF T <= 0
    THEN Ret(IF option_type = "call" THEN (IF S > K THEN ONE ELSE 0)
             ELSE (IF S < K THEN -ONE ELSE 0), <<>>)
    ELSE IF sigma <= 0
    THEN Ret(IF option_type = "call"
             THEN (IF S > Discounted(K, r, T) THEN ONE ELSE 0)
             ELSE (IF S < Discounted(K, r, T) THEN -ONE ELSE 0), <<>>)
    ELSE LET regular(d1_val) ==
                 IF ~Returned(d1_val) THEN d1_val
                 ELSE Ret(IF option_type = "call"
                          THEN normal_cdf(d1_val.val)
                          ELSE Sub(normal_cdf(d1_val.val), ONE),
                          <<"d1", "normal_cdf">>)
         IN  regular(d1(S, K, r, sigma, T))

\* A faulty delta that, at zero volatility, compares the spot with the
\* strike instead of the discounted strike.
delta_undiscounted(S, K, T, r, sigma, option_type) ==
    IF T <= 0
    THEN Ret(IF option_type = "call"
             THEN (IF S > K THEN ONE ELSE IF S = K THEN HALF ELSE 0)
             ELSE (IF S < K THEN -ONE ELSE IF S = K THEN -HALF ELSE 0), <<>>)
    ELSE IF sigma <= 0
    THEN Ret(IF option_type = "call" THEN (IF S > K THEN ONE ELSE 0)
             ELSE (IF S < K THEN -ONE ELSE 0), <<>>)
    ELSE LET regular(d1_val) ==
                 IF ~Returned(d1_val) THEN d1_val
                 ELSE Ret(IF option_type = "call"
                          THEN normal_cdf(d1_val.val)
                          ELSE Sub(normal_cdf(d1_val.val), ONE),
                          <<"d1", "normal_cdf">>)
         IN  regular(d1(S, K, r, sigma, T))

\* The three branches: T <= 0 (greeks.py:32-36), sigma <= 0 (38-42) and the
\* regular formula from d1 (44-49).
delta(S, K, T, r, sigma, option_type) ==
    IF T <= 0
    THEN Ret(IF option_type = "call"
             THEN (IF S > K THEN ONE ELSE IF S = K THEN HALF ELSE 0)
             ELSE (IF S < K THEN -ONE ELSE IF S = K THEN -HALF ELSE 0), <<>>)
    ELSE IF sigma <= 0
    THEN Ret(IF option_type = "call"
             THEN (IF S > Discounted(K, r, T) THEN ONE ELSE 0)
             ELSE (IF S < Discounted(K, r, T) THEN -ONE ELSE 0), <<>>)
    ELSE LET regular(d1_val) ==
                 IF ~Returned(d1_val) THEN d1_val
                 ELSE Ret(IF option_type = "call"
                          THEN normal_cdf(d1_val.val)
                          ELSE Sub(normal_cdf(d1_val.val), ONE),
                          <<"d1", "normal_cdf">>)
         IN  regular(d1(S, K, r, sigma, T))

\* A faulty gamma that guards the expiry only.
gamma_expiry_guard_only(S, K, T, r, sigma) ==
    IF T <= 0 THEN Ret(0, <<>>)
    ELSE LET quotient(d1_val, den) ==
                 IF ~Returned(d1_val) THEN d1_val
                 ELSE IF den = 0
                 THEN Raise("ZeroDivisionError", "float division by zero",
                            <<"d1">>)
                 ELSE Ret(Div(normal_pdf(d1_val.val), den), <<"d1">>)
         IN  quotient(d1(S, K, r, sigma, T), Mul(Mul(S, sigma), Sqrt(T)))

gamma(S, K, T, r, sigma) ==
    IF T <= 0 \/ sigma <= 0 THEN Ret(0, <<>>)
    ELSE LET quotient(d1_val, den) ==
                 IF ~Returned(d1_val) THEN d1_val
                 ELSE IF den = 0
                 THEN Raise("ZeroDivisionError", "float division by zero",
                            <<"d1">>)
                 ELSE Ret(Div(normal_pdf(d1_val.val), den), <<"d1">>)
         IN  quotient(d1(S, K, r, sigma, T), Mul(Mul(S, sigma), Sqrt(T)))

vega(S, K, T, r, sigma) ==
    IF T <= 0 \/ sigma <= 0 THEN Ret(0, <<>>)
    ELSE LET product(d1_val) ==
                 IF ~Returned(d1_val) THEN d1_val
                 ELSE Ret(Mul(Mul(S, Sqrt(T)), normal_pdf(d1_val.val)),
                          <<"d1">>)
         IN  product(d1(S, K, r, sigma, T))

\* term1 (greeks.py:123) plus term2 (greeks.py:125-128).
theta(S, K, T, r, sigma, option_type) ==
    IF T <= 0 \/ sigma <= 0 THEN Ret(0, <<>>)
    ELSE LET sum(a, b) ==
                 IF ~Returned(a) THEN a
                 ELSE IF ~Returned(b) THEN b
                 ELSE Ret(Add(Div(Mul(Mul(-S, normal_pdf(a.val)), sigma),
                                  Mul(2 * ONE, Sqrt(T))),
                              IF option_type = "call"
                              THEN Mul(Mul(Mul(-r, K), Exp(Mul(-r, T))),
                                       normal_cdf(b.val))
                              ELSE Mul(Mul(Mul(r, K), Exp(Mul(-r, T))),
                                       normal_cdf(-b.val))),
                          <<"d1", "d2">>)
             with_d1(a) == sum(a, d2(a.val, sigma, T))
         IN  with_d1(d1(S, K, r, sigma, T))

rho(S, K, T, r, sigma, option_type) ==
    IF T <= 0 \/ sigma <= 0 THEN Ret(0, <<>>)
    ELSE LET product(a, b) ==
                 IF ~Returned(a) THEN a
                 ELSE IF ~Returned(b) THEN b
                 ELSE Ret(IF option_type = "call"
                          THEN Mul(Mul(Mul(K, T), Exp(Mul(-r, T))),
                                   normal_cdf(b.val))
                          ELSE Mul(Mul(Mul(-K, T), Exp(Mul(-r, T))),
                                   normal_cdf(-b.val)),
                          <<"d1", "d2">>)
             with_d1(a) == product(a, d2(a.val, sigma, T))
         IN  with_d1(d1(S, K, r, sigma, T))

\* The dictionary is built entry by entry, in this order; the first failing
\* entry's exception is the call's.  The outcome's val is the dictionary.
calculate_all_greeks(S, K, T, r, sigma, option_type) ==
    LET collect(dl, gm, vg, th, rh) ==
            IF ~Returned(dl) THEN dl
            ELSE IF ~Returned(gm) THEN gm
            ELSE IF ~Returned(vg) THEN vg
            ELSE IF ~Returned(th) THEN th
            ELSE IF ~Returned(rh) THEN rh
            ELSE Ret([delta |-> dl.val, gamma |-> gm.val, vega |-> vg.val,
                      theta |-> th.val, rho |-> rh.val],
                     <<"delta", "gamma", "vega", "theta", "rho">>)
    IN  collect(delta(S, K, T, r, sigma, option_type),
                gamma(S, K, T, r, sigma),
                vega(S, K, T, r, sigma),
                theta(S, K, T, r, sigma, option_type),
                rho(S, K, T, r, sigma, option_type))

-----------------------------------------------------------------------------
(* Calls of the Greeks, of d1 and of d2.  The grids are those of the        *)
(* pricing calls: they hold both degenerate cases, the spot at, above and   *)
(* below the strike and its discounted value, and invalid values.           *)

CallDelta ==
    /\ fn = "idle"
    /\ \E S \in SGrid, K \in KGrid, T \in TGrid, r \in RGrid,
          sigma \in SigmaGrid, option_type \in {"call", "put"} :
           /\ fn' = "delta"
           /\ args' = PriceArgs(S, K, T, r, sigma, option_type)
           /\ out' = delta(S, K, T, r, sigma, option_type)
    /\ SolverIdle

CallGamma ==
    /\ fn = "idle"
    /\ \E S \in SGrid, K \in KGrid, T \in TGrid, r \in RGrid,
          sigma \in SigmaGrid :
           /\ fn' = "gamma"
           /\ args' = PriceArgs(S, K, T, r, sigma, "")
           /\ out' = gamma(S, K, T, r, sigma)
    /\ SolverIdle

CallVega ==
    /\ fn = "idle"
    /\ \E S \in SGrid, K \in KGrid, T \in TGrid, r \in RGrid,
          sigma \in SigmaGrid :
           /\ fn' = "vega"
           /\ args' = PriceArgs(S, K, T, r, sigma, "")
           /\ out' = vega(S, K, T, r, sigma)
    /\ SolverIdle

CallTheta ==
    /\ fn = "idle"
    /\ \E S \in SGrid, K \in KGrid, T \in TGrid, r \in RGrid,
          sigma \in SigmaGrid, option_type \in {"call", "put"} :
           /\ fn' = "theta"
           /\ args' = PriceArgs(S, K, T, r, sigma, option_type)
           /\ out' = theta(S, K, T, r, sigma, option_type)
    /\ SolverIdle

CallRho ==
    /\ fn = "idle"
    /\ \E S \in SGrid, K \in KGrid, T \in TGrid, r \in RGrid,
          sigma \in SigmaGrid, option_type \in {"call", "put"} :
           /\ fn' = "rho"
           /\ args' = PriceArgs(S, K, T, r, sigma, option_type)
           /\ out' = rho(S, K, T, r, sigma, option_type)
    /\ SolverIdle

CallCalculateAllGreeks ==
    /\ fn = "idle"
    /\ \E S \in SGrid, K \in KGrid, T \in TGrid, r \in RGrid,
          sigma \in SigmaGrid, option_type \in {"call", "put"} :
           /\ fn' = "calculate_all_greeks"
           /\ args' = PriceArgs(S, K, T, r, sigma, option_type)
           /\ out' = calculate_all_greeks(S, K, T, r, sigma, option_type)
    /\ SolverIdle

CallD1 ==
    /\ fn = "idle"
    /\ \E S \in SGrid, K \in KGrid, T \in TGrid, r \in RGrid,
          sigma \in SigmaGrid :
           /\ fn' = "d1"
           /\ args' = PriceArgs(S, K, T, r, sigma, "")
           /\ out' = d1(S, K, r, sigma, T)
    /\ SolverIdle

\* The d1_value handed to d2: finite of either sign, zero, and both
\* infinities (what d1 returns at T <= 0).
D1Grid == {-Inf, -5000, 0, 5000, Inf}

CallD2 ==
    /\ fn = "idle"
    /\ \E d1_value \in D1Grid, sigma \in SigmaGrid, T \in TGrid :
           /\ fn' = "d2"
           /\ args' = [d1_value |-> d1_value, sigma |-> sigma, T |-> T]
           /\ out' = d2(d1_value, sigma, T)
    /\ SolverIdle

NextGreeks ==
    \/ CallD1
    \/ CallD2
    \/ CallDelta
    \/ CallGamma
    \/ CallVega
    \/ CallTheta
    \/ CallRho
    \/ CallCalculateAllGreeks
    \/ Done

SpecGreeks == Init /\ [][NextGreeks]_vars

-----------------------------------------------------------------------------
(* Claims about the Greeks.                                                *)

\* C11 as stated: for every input, in every branch of delta, the call's
\* delta lies in [0,1], the put's in [-1,0], and the put's delta equals the
\* call's delta minus one for the same (S, K, T, r, sigma).
C11_DeltaRelationEveryInput ==
    (fn = "delta" /\ Returned(out)) =>
        /\ args.option_type = "call" => (out.val >= 0 /\ out.val <= ONE)
        /\ args.option_type = "put" => (out.val >= -ONE /\ out.val <= 0)
        /\ args.option_type = "call" =>
               \A q \in {delta(args.S, args.K, args.T, args.r, args.sigma,
                               "put")} :
                   Returned(q) /\ q.val = Sub(out.val, ONE)

\* C11 amended: the bounds hold in every branch; the put's delta is the
\* call's minus one in every branch except at zero volatility with the spot
\* exactly at the discounted strike, where both deltas are 0.
C11_DeltaBoundsAndRelation ==
    (fn = "delta" /\ Returned(out)) =>
        /\ args.option_type = "call" => (out.val >= 0 /\ out.val <= ONE)
        /\ args.option_type = "put" => (out.val >= -ONE /\ out.val <= 0)
        /\ args.option_type = "call" =>
               \A q \in {delta(args.S, args.K, args.T, args.r, args.sigma,
                               "put")} :
                   /\ Returned(q)
                   /\ IF /\ args.T > 0
                         /\ args.sigma <= 0
                         /\ args.S = Discounted(args.K, args.r, args.T)
                      THEN out.val = 0 /\ q.val = 0
                      ELSE q.val = Sub(out.val, ONE)

\* A call delta of the regular formula, strictly between 0 and 1.
C11_Witness ==
    /\ fn = "delta"
    /\ Returned(out)
    /\ args.option_type = "call"
    /\ args.S > 0
    /\ args.K > 0
    /\ args.T > 0
    /\ args.sigma > 0
    /\ out.val > 0
    /\ out.val < ONE

\* C12: at T <= 0 delta is the step function of moneyness - call 1 / 0.5 / 0
\* for S > K / S = K / S < K, put -1 / -0.5 / 0 for S < K / S = K / S > K -
\* and the same for every r and sigma.
C12_ExpiryStep ==
    (fn = "delta" /\ args.T <= 0) =>
        /\ Returned(out)
        /\ args.option_type = "call" =>
               out.val = IF args.S > args.K THEN ONE
                         ELSE IF args.S = args.K THEN HALF ELSE 0
        /\ args.option_type = "put" =>
               out.val = IF args.S < args.K THEN -ONE
                         ELSE IF args.S = args.K THEN -HALF ELSE 0
        /\ \A r \in RGrid, sigma \in SigmaGrid :
               delta(args.S, args.K, args.T, r, sigma, args.option_type)
                   = out

\* A call delta of one half, at expiry and at the money.
C12_Witness ==
    /\ fn = "delta"
    /\ args.T = 0
    /\ args.S = args.K
    /\ args.S > 0
    /\ args.option_type = "call"
    /\ out.val = HALF

\* C13: at sigma <= 0 with T > 0 the call's delta is 1 if S > K*e^(-rT) and
\* 0 otherwise, the put's is -1 if S < K*e^(-rT) and 0 otherwise; gamma and
\* vega are 0; theta and rho are returned without evaluating d1, so they
\* carry no gamma or vega term (they are 0 as well).
C13_ZeroVolatility ==
    (args.sigma <= 0 /\ args.T > 0) =>
        /\ (fn = "delta" /\ args.option_type = "call") =>
               /\ Returned(out)
               /\ out.val = IF args.S > Discounted(args.K, args.r, args.T)
                            THEN ONE ELSE 0
        /\ (fn = "delta" /\ args.option_type = "put") =>
               /\ Returned(out)
               /\ out.val = IF args.S < Discounted(args.K, args.r, args.T)
                            THEN -ONE ELSE 0
        /\ fn \in {"gamma", "vega"} => (Returned(out) /\ out.val = 0)
        /\ fn \in {"theta", "rho"} =>
               (Returned(out) /\ out.calls = <<>> /\ out.val = 0)
        /\ fn = "calculate_all_greeks" =>
               /\ Returned(out)
               /\ out.val.gamma = 0
               /\ out.val.vega = 0
               /\ out.val.theta = 0
               /\ out.val.rho = 0

\* A call delta of one at zero volatility with the spot at the strike: the
\* spot is above the discounted strike only.
C13_Witness ==
    /\ fn = "delta"
    /\ args.sigma = 0
    /\ args.T > 0
    /\ args.S = args.K
    /\ args.S > 0
    /\ args.r > 0
    /\ args.option_type = "call"
    /\ out.val = ONE

\* C14: gamma and vega (which take no option type) are never negative for
\* any input: they return 0 whenever T <= 0 or sigma <= 0 and a value >= 0
\* whenever sigma > 0 and T > 0.
C14_GammaVegaNeverNegative ==
    (fn \in {"gamma", "vega"} /\ Returned(out)) =>
        /\ (args.T <= 0 \/ args.sigma <= 0) => out.val = 0
        /\ out.val >= 0

\* C15: d1 returns +infinity when T <= 0 and S >= K, -infinity when T <= 0
\* and S < K, whatever sigma is; for T > 0 with sigma <= 0 it fails with a
\* domain error (a ValueError), neither returning a number nor raising
\* another kind of error.
C15_D1EdgeCases ==
    fn = "d1" =>
        /\ args.T <= 0 =>
               /\ Returned(out)
               /\ out.val = IF args.S >= args.K THEN Inf ELSE -Inf
        /\ (args.T > 0 /\ args.sigma <= 0) => out.exc = "ValueError"

\* C16: d2 returns +infinity when T <= 0 and d1_value > 0, -infinity when
\* T <= 0 and d1_value <= 0, for every d1_value and for T < 0 as well as
\* T = 0; otherwise it returns d1_value - sigma * sqrt(T).
C16_D2EdgeCases ==
    fn = "d2" =>
        /\ Returned(out)
        /\ out.val = IF args.T <= 0
                     THEN (IF args.d1_value > 0 THEN Inf ELSE -Inf)
                     ELSE Sub(args.d1_value, Mul(args.sigma, Sqrt(args.T)))

\* C17: every core entry point that takes market inputs - the price
\* functions, the five Greeks, calculate_all_greeks and
\* implied_vol_from_price - given S <= 0, K <= 0, sigma < 0 or T < 0 fails
\* with a ValueError whose message names a violated field (the option type
\* being a valid one); it returns nothing and raises no other error.
C17_InvalidInputsFail ==
    (/\ fn \in {"price_call", "price_put", "black_scholes_price", "delta",
                "gamma", "vega", "theta", "rho", "calculate_all_greeks",
                "implied_vol_from_price"}
     /\ args.option_type # "invalid"
     /\ out.exc # "pending"
     /\ FirstInvalid(args) # "none")
        => /\ out.exc = "ValueError"
           /\ \/ FieldNamed(out.msg) = "S" /\ args.S <= 0
              \/ FieldNamed(out.msg) = "K" /\ args.K <= 0
              \/ FieldNamed(out.msg) = "sigma" /\ args.sigma < 0
              \/ FieldNamed(out.msg) = "T" /\ args.T < 0

-----------------------------------------------------------------------------
(* Two callers.  A call's state is its arguments and its locals: when the  *)
(* interpreter switches from one caller's thread to the other's, the whole *)
(* frame of the running call is set aside and the other one's comes back.  *)
(* The core modules hold no variable outside the frames (bs.py, greeks.py, *)
(* iv.py and normals.py assign nothing at module level but OptionType).    *)

\* test_iv.py:218-235 and its neighbours: the same scenario solved again and
\* again, here by two callers at once, as a call and as a put and with
\* either iteration limit; a price and the Greeks of the scenario are called
\* too.
CallConcurrent ==
    /\ fn = "idle"
    /\ \E S \in {ONE}, is_call \in BOOLEAN, sigma \in {2000},
          tol \in {TOL_DEFAULT}, max_iter \in MaxIterGrid :
           \E p \in {black_scholes_price(S, ONE, ONE, 500, sigma,
                                         OptionType(is_call))} :
               \/ /\ Returned(p)
                  /\ Enter(p.val, S, ONE, 500, ONE, is_call, tol, max_iter,
                           sigma)
               \/ /\ fn' = "black_scholes_price"
                  /\ args' = PriceArgs(S, ONE, ONE, 500, sigma,
                                       OptionType(is_call))
                  /\ out' = p
                  /\ SolverIdle
               \/ /\ fn' = "calculate_all_greeks"
                  /\ args' = PriceArgs(S, ONE, ONE, 500, sigma,
                                       OptionType(is_call))
                  /\ out' = calculate_all_greeks(S, ONE, ONE, 500, sigma,
                                                 OptionType(is_call))
                  /\ SolverIdle

\* A faulty switch that leaves the bracket where it is: the two calls share
\* sigma_low, sigma_high, f_low and f_high.
Switch_shared_bracket ==
    /\ parked' = [fn |-> fn, args |-> args, out |-> out, pc |-> pc,
                  sigma_low |-> sigma_low, sigma_high |-> sigma_high,
                  f_low |-> f_low, f_high |-> f_high, i |-> i,
                  sigma_guess |-> sigma_guess, evals |-> evals]
    /\ fn' = parked.fn
    /\ args' = parked.args
    /\ out' = parked.out
    /\ pc' = parked.pc
    /\ i' = parked.i
    /\ sigma_guess' = parked.sigma_guess
    /\ evals' = parked.evals
    /\ UNCHANGED <<sigma_low, sigma_high, f_low, f_high, process>>

\* The interpreter runs the other caller: the frames change places.
Switch ==
    /\ parked' = [fn |-> fn, args |-> args, out |-> out, pc |-> pc,
                  sigma_low |-> sigma_low, sigma_high |-> sigma_high,
                  f_low |-> f_low, f_high |-> f_high, i |-> i,
                  sigma_guess |-> sigma_guess, evals |-> evals]
    /\ fn' = parked.fn
    /\ args' = parked.args
    /\ out' = parked.out
    /\ pc' = parked.pc
    /\ sigma_low' = parked.sigma_low
    /\ sigma_high' = parked.sigma_high
    /\ f_low' = parked.f_low
    /\ f_high' = parked.f_high
    /\ i' = parked.i
    /\ sigma_guess' = parked.sigma_guess
    /\ evals' = parked.evals
    /\ UNCHANGED process

NextConcurrent ==
    \/ CallConcurrent
    \/ Bracket
    \/ BisectStep
    \/ BisectEnd
    \/ NewtonStep
    \/ NewtonEnd
    \/ Switch
    \/ Done

SpecConcurrent == Init /\ [][NextConcurrent]_vars

-----------------------------------------------------------------------------
(* backend/src/core: the engine behind the HTTP API.  It has the formulas  *)
(* of src/src/core with clamped normal primitives, bounds on every input   *)
(* and every numeric failure re-raised as a ValueError.  An f-string       *)
(* message is kept with its placeholder.                                   *)

MAX_PDF_ARG == 370000      \* normals.py:31, abs(x) > 37
MIN_EXP == -7000000         \* normals.py:14
MAX_EXP == 7000000          \* normals.py:13
MAX_CDF_ARG == 80000        \* normals.py:57-60, x > 8.0 and x < -8.0

backend_normal_pdf(x) ==
    IF Abs(x) > MAX_PDF_ARG THEN 0
    ELSE LET clamped(exponent) ==
                 IF exponent < MIN_EXP THEN 0
                 ELSE IF exponent > MAX_EXP THEN 0
                 ELSE Div(Exp(exponent), SQRT2PI)
         IN  clamped(Mul(Mul(-HALF, x), x))

\* A faulty clamped normal_cdf whose two tails return the same constant.
backend_normal_cdf_tails_alike(x) ==
    IF x > MAX_CDF_ARG THEN ONE
    ELSE IF x < -MAX_CDF_ARG THEN ONE
    ELSE Mul(HALF, Add(ONE, Erf(Div(x, SQRT_2))))

backend_normal_cdf(x) ==
    IF x > MAX_CDF_ARG THEN ONE
    ELSE IF x < -MAX_CDF_ARG THEN 0
    ELSE Mul(HALF, Add(ONE, Erf(Div(x, SQRT_2))))

\* For T > 0 and sigma > 0 the expression is that of src/src/core/bs.py:30,
\* with safe_log and safe_sqrt: a zero divisor and a non-positive S / K end
\* as a ValueError all the same.
backend_d1(S, K, r, sigma, T) ==
    IF T <= 0 THEN Ret(IF S >= K THEN Inf ELSE -Inf, <<>>)
    ELSE IF sigma <= 0
    THEN Raise("ValueError", "Volatility must be positive for d1 calculation",
               <<>>)
    ELSE LET wrapped(o) ==
                 IF Returned(o) THEN o
                 ELSE Raise("ValueError", "Error in d1 calculation: {e}",
                            <<>>)
         IN  wrapped(d1(S, K, r, sigma, T))

backend_d2(d1_value, sigma, T) ==
    IF T <= 0 THEN Ret(IF d1_value > 0 THEN Inf ELSE -Inf, <<>>)
    ELSE IF sigma <= 0
    THEN Raise("ValueError", "Volatility must be positive for d2 calculation",
               <<>>)
    ELSE Ret(Sub(d1_value, Mul(sigma, Sqrt(T))), <<>>)

MAX_PRICE == 100000000      \* bs.py:78-81, schemas.py:12-13
MIN_RATE == -5000           \* bs.py:82
MAX_RATE == 20000           \* bs.py:82
MAX_TIME == 500000          \* bs.py:84
MAX_VOL == 50000            \* bs.py:86

backend_validate_inputs(S, K, r, sigma, T) ==
    IF S <= 0 THEN Raise("ValueError", "Stock price must be positive", <<>>)
    ELSE IF K <= 0
    THEN Raise("ValueError", "Strike price must be positive", <<>>)
    ELSE IF sigma < 0
    THEN Raise("ValueError", "Volatility must be non-negative", <<>>)
    ELSE IF T < 0
    THEN Raise("ValueError", "Time to expiration must be non-negative", <<>>)
    ELSE IF S > MAX_PRICE
    THEN Raise("ValueError", "Stock price too high (max: 10,000)", <<>>)
    ELSE IF K > MAX_PRICE
    THEN Raise("ValueError", "Strike price too high (max: 10,000)", <<>>)
    ELSE IF r < MIN_RATE \/ r > MAX_RATE
    THEN Raise("ValueError", "Risk-free rate out of bounds (-50% to 200%)",
               <<>>)
    ELSE IF T > MAX_TIME
    THEN Raise("ValueError", "Time to expiry too long (max: 50 years)", <<>>)
    ELSE IF sigma > MAX_VOL
    THEN Raise("ValueError", "Volatility too high (max: 500%)", <<>>)
    ELSE Ret(0, <<>>)

backend_price_call(S, K, T, r, sigma) ==
    LET formula(a, b) ==
            IF ~Returned(a) \/ ~Returned(b)
            THEN Raise("ValueError", "Error in call price calculation: {e}",
                       <<>>)
            ELSE Ret(Sub(Mul(S, backend_normal_cdf(a.val)),
                         Mul(Discounted(K, r, T), backend_normal_cdf(b.val))),
                     <<>>)
        with_d1(a) == formula(a, backend_d2(a.val, sigma, T))
        validated(chk) ==
            IF ~Returned(chk) THEN chk
            ELSE IF T = 0 THEN Ret(Max(0, Sub(S, K)), <<>>)
            ELSE IF sigma = 0
            THEN Ret(Max(0, Sub(S, Discounted(K, r, T))), <<>>)
            ELSE with_d1(backend_d1(S, K, r, sigma, T))
    IN  validated(backend_validate_inputs(S, K, r, sigma, T))

backend_price_put(S, K, T, r, sigma) ==
    LET formula(a, b) ==
            IF ~Returned(a) \/ ~Returned(b)
            THEN Raise("ValueError", "Error in put price calculation: {e}",
                       <<>>)
            ELSE Ret(Sub(Mul(Discounted(K, r, T),
                             backend_normal_cdf(-b.val)),
                         Mul(S, backend_normal_cdf(-a.val))), <<>>)
        with_d1(a) == formula(a, backend_d2(a.val, sigma, T))
        validated(chk) ==
            IF ~Returned(chk) THEN chk
            ELSE IF T = 0 THEN Ret(Max(0, Sub(K, S)), <<>>)
            ELSE IF sigma = 0
            THEN Ret(Max(0, Sub(Discounted(K, r, T), S)), <<>>)
            ELSE with_d1(backend_d1(S, K, r, sigma, T))
    IN  validated(backend_validate_inputs(S, K, r, sigma, T))

backend_black_scholes_price(S, K, T, r, sigma, option_type) ==
    IF option_type = "call" THEN backend_price_call(S, K, T, r, sigma)
    ELSE IF option_type = "put" THEN backend_price_put(S, K, T, r, sigma)
    ELSE Raise("ValueError", "option_type must be 'call' or 'put'", <<>>)

backend_delta(S, K, T, r, sigma, option_type) ==
    IF T <= 0
    THEN Ret(IF option_type = "call"
             THEN (IF S > K THEN ONE ELSE IF S = K THEN HALF ELSE 0)
             ELSE (IF S < K THEN -ONE ELSE IF S = K THEN -HALF ELSE 0), <<>>)
    ELSE IF sigma <= 0
    THEN Ret(IF option_type = "call"
             THEN (IF S > Discounted(K, r, T) THEN ONE ELSE 0)
             ELSE (IF S < Discounted(K, r, T) THEN -ONE ELSE 0), <<>>)
    ELSE LET regular(d1_val) ==
                 IF ~Returned(d1_val)
                 THEN Raise("ValueError", "Error in delta calculation: {e}",
                            <<>>)
                 ELSE Ret(IF option_type = "call"
                          THEN backend_normal_cdf(d1_val.val)
                          ELSE Sub(backend_normal_cdf(d1_val.val), ONE),
                          <<>>)
         IN  regular(backend_d1(S, K, r, sigma, T))

backend_gamma(S, K, T, r, sigma) ==
    IF T <= 0 \/ sigma <= 0 THEN Ret(0, <<>>)
    ELSE LET quotient(d1_val, denominator) ==
                 IF ~Returned(d1_val)
                 THEN Raise("ValueError", "Error in gamma calculation: {e}",
                            <<>>)
                 ELSE IF denominator <= 0 THEN Ret(0, <<>>)
                 ELSE Ret(Div(backend_normal_pdf(d1_val.val), denominator),
                          <<>>)
         IN  quotient(backend_d1(S, K, r, sigma, T),
                      Mul(Mul(S, sigma), Sqrt(T)))

backend_vega(S, K, T, r, sigma) ==
    IF T <= 0 \/ sigma <= 0 THEN Ret(0, <<>>)
    ELSE LET product(d1_val) ==
                 IF ~Returned(d1_val)
                 THEN Raise("ValueError", "Error in vega calculation: {e}",
                            <<>>)
                 ELSE Ret(Mul(Mul(S, Sqrt(T)),
                              backend_normal_pdf(d1_val.val)), <<>>)
         IN  product(backend_d1(S, K, r, sigma, T))

backend_theta(S, K, T, r, sigma, option_type) ==
    IF T <= 0 THEN Ret(0, <<>>)
    ELSE IF sigma <= 0
    THEN Ret(IF option_type = "call"
             THEN (IF S > Discounted(K, r, T)
                   THEN Mul(Mul(-r, K), Exp(Mul(-r, T))) ELSE 0)
             ELSE (IF S < Discounted(K, r, T)
                   THEN Mul(Mul(r, K), Exp(Mul(-r, T))) ELSE 0), <<>>)
    ELSE LET sum(a, b) ==
                 IF ~Returned(a) \/ ~Returned(b)
                 THEN Raise("ValueError", "Error in theta calculation: {e}",
                            <<>>)
                 ELSE Ret(IF option_type = "call"
                          THEN Sub(Div(-Mul(Mul(S, backend_normal_pdf(a.val)),
                                            sigma),
                                       Mul(2 * ONE, Sqrt(T))),
                                   Mul(Mul(Mul(r, K), Exp(Mul(-r, T))),
                                       backend_normal_cdf(b.val)))
                          ELSE Add(Div(-Mul(Mul(S, backend_normal_pdf(a.val)),
                                            sigma),
                                       Mul(2 * ONE, Sqrt(T))),
                                   Mul(Mul(Mul(r, K), Exp(Mul(-r, T))),
                                       backend_normal_cdf(-b.val))),
                          <<>>)
             with_d1(a) == sum(a, backend_d2(a.val, sigma, T))
         IN  with_d1(backend_d1(S, K, r, sigma, T))

backend_rho(S, K, T, r, sigma, option_type) ==
    IF T <= 0 THEN Ret(0, <<>>)
    ELSE IF sigma <= 0 THEN Ret(0, <<>>)
    ELSE LET product(a, b) ==
                 IF ~Returned(a) \/ ~Returned(b)
                 THEN Raise("ValueError", "Error in rho calculation: {e}",
                            <<>>)
                 ELSE Ret(IF option_type = "call"
                          THEN Mul(Mul(Mul(K, T), Exp(Mul(-r, T))),
                                   backend_normal_cdf(b.val))
                          ELSE Mul(Mul(Mul(-K, T), Exp(Mul(-r, T))),
                                   backend_normal_cdf(-b.val)), <<>>)
             with_d1(a) == product(a, backend_d2(a.val, sigma, T))
         IN  with_d1(backend_d1(S, K, r, sigma, T))

backend_calculate_all_greeks(S, K, T, r, sigma, option_type) ==
    LET collect(dl, gm, vg, th, rh) ==
            IF \/ ~Returned(dl)
               \/ ~Returned(gm)
               \/ ~Returned(vg)
               \/ ~Returned(th)
               \/ ~Returned(rh)
            THEN Raise("ValueError", "Error calculating Greeks: {e}", <<>>)
            ELSE Ret([delta |-> dl.val, gamma |-> gm.val, vega |-> vg.val,
                      theta |-> th.val, rho |-> rh.val], <<>>)
    IN  collect(backend_delta(S, K, T, r, sigma, option_type),
                backend_gamma(S, K, T, r, sigma),
                backend_vega(S, K, T, r, sigma),
                backend_theta(S, K, T, r, sigma, option_type),
                backend_rho(S, K, T, r, sigma, option_type))

-----------------------------------------------------------------------------
(* backend/app: the HTTP API, and src/utils/plots.py.  A handler's outcome  *)
(* is the body it returns, the HTTPException it raises (val is the status   *)
(* code, msg the detail) or another exception that escapes it.  A point of  *)
(* a sweep is a record: nan tells the NaN sentinel from a value.            *)
(* The handlers of backend/app import src.core, which is the engine of      *)
(* backend/src/core beside them; it has no iv.py, and the solver is that of *)
(* src/src/core/iv.py.  The rendering of a returned body is FastAPI's and   *)
(* is not part of a handler.                                                *)

\* schemas.py: the constraints of the request models on the fields the
\* handlers read (a scalar S or sigma is a list of one).  A request that
\* violates them is answered 422 before the handler runs.
FieldsValid(S_values, vol_values, K, r, T, option_type) ==
    /\ S_values # <<>>
    /\ \A k \in DOMAIN S_values : S_values[k] > 0 /\ S_values[k] <= MAX_PRICE
    /\ vol_values # <<>>
    /\ \A k \in DOMAIN vol_values :
           vol_values[k] >= 0 /\ vol_values[k] <= MAX_VOL
    /\ K > 0
    /\ K <= MAX_PRICE
    /\ r >= MIN_RATE
    /\ r <= MAX_RATE
    /\ T >= 0
    /\ T <= MAX_TIME
    /\ option_type \in {"call", "put"}

\* charts_api.py:18-140, the router's three sweeps.  The body is the grid of
\* points, one row per volatility (a curve is one row, at the request's
\* sigma, here vol_values[1]); the five lists of a Greeks curve are the
\* fields of its points.  Each point is guarded by `except ValueError`
\* (42-44, 80-82, 123-129); the outer `except Exception` answers 422.
ChartsApi ==
    /\ fn = "idle"
    /\ \E S_values \in {<<ONE>>, <<1, ONE>>, <<9000, 1>>, <<0, ONE>>},
          vol_values \in {<<2000>>, <<0, 2000>>, <<2000, 6 * ONE>>},
          K \in {ONE, 3 * ONE}, T \in {0, ONE},
          option_type \in {"call", "put"},
          kind \in {"generate_price_curve", "generate_price_heatmap",
                    "generate_greeks_curves"} :
           /\ fn' = "charts_api"
           /\ args' = [kind |-> kind, S_values |-> S_values,
                       vol_values |-> vol_values, K |-> K, r |-> 500,
                       T |-> T, option_type |-> option_type]
           /\ out' =
                IF ~FieldsValid(S_values, vol_values, K, 500, T, option_type)
                THEN RaiseVal("HTTPException", "request validation", 422,
                              <<>>)
                ELSE LET point(o) ==
                             IF Returned(o) THEN [nan |-> FALSE, val |-> o.val]
                             ELSE [nan |-> TRUE, val |-> 0]
                         body(z) ==
                             IF \E v \in DOMAIN z : \E k \in DOMAIN z[v] :
                                    /\ ~Returned(z[v][k])
                                    /\ z[v][k].exc # "ValueError"
                             THEN RaiseVal("HTTPException",
                                           "Error generating {chart}: {e}",
                                           422, <<>>)
                             ELSE Ret([v \in DOMAIN z |->
                                          [k \in DOMAIN z[v] |->
                                              point(z[v][k])]], <<>>)
                     IN  IF kind = "generate_price_heatmap"
                         THEN body([v \in DOMAIN vol_values |->
                                      [k \in DOMAIN S_values |->
                                          backend_black_scholes_price(
                                              S_values[k], K, T, 500,
                                              vol_values[v], option_type)]])
                         ELSE IF kind = "generate_price_curve"
                         THEN body(<<[k \in DOMAIN S_values |->
                                        backend_black_scholes_price(
                                            S_values[k], K, T, 500,
                                            vol_values[1], option_type)]>>)
                         ELSE body(<<[k \in DOMAIN S_values |->
                                        backend_calculate_all_greeks(
                                            S_values[k], K, T, 500,
                                            vol_values[1], option_type)]>>)
    /\ SolverIdle

\* main.py:250-297 and 365-398, the sweeps main.py defines under the paths
\* the router already serves.  No point is guarded: the first failure, in
\* the order of the loops, ends the request - 422 for a ValueError, and any
\* other exception escapes.
MainCharts ==
    /\ fn = "idle"
    /\ \E S_values \in {<<ONE>>, <<1, ONE>>, <<9000, 1>>, <<0, ONE>>},
          vol_values \in {<<2000>>, <<0, 2000>>, <<2000, 6 * ONE>>},
          K \in {ONE, 3 * ONE}, T \in {0, ONE},
          option_type \in {"call", "put"},
          kind \in {"generate_price_curve", "generate_price_heatmap",
                    "generate_greeks_curves"} :
           /\ fn' = "main"
           /\ args' = [kind |-> kind, S_values |-> S_values,
                       vol_values |-> vol_values, K |-> K, r |-> 500,
                       T |-> T, option_type |-> option_type]
           /\ out' =
                IF ~FieldsValid(S_values, vol_values, K, 500, T, option_type)
                THEN RaiseVal("HTTPException", "request validation", 422,
                              <<>>)
                ELSE LET point(o) == [nan |-> FALSE, val |-> o.val]
                         failed(z) ==
                             {p \in (DOMAIN z) \X (DOMAIN z[1]) :
                                  ~Returned(z[p[1]][p[2]])}
                         first(z, ps) ==
                             CHOOSE p \in ps : \A q \in ps :
                                 \/ p[1] < q[1]
                                 \/ (p[1] = q[1] /\ p[2] <= q[2])
                         abort(o) ==
                             IF o.exc = "ValueError"
                             THEN RaiseVal("HTTPException", o.msg, 422, <<>>)
                             ELSE o
                         at(z, p) == abort(z[p[1]][p[2]])
                         body(z) ==
                             IF failed(z) # {} THEN at(z, first(z, failed(z)))
                             ELSE Ret([v \in DOMAIN z |->
                                          [k \in DOMAIN z[v] |->
                                              point(z[v][k])]], <<>>)
                     IN  IF kind = "generate_price_heatmap"
                         THEN body([v \in DOMAIN vol_values |->
                                      [k \in DOMAIN S_values |->
                                          backend_black_scholes_price(
                                              S_values[k], K, T, 500,
                                              vol_values[v], option_type)]])
                         ELSE IF kind = "generate_price_curve"
                         THEN body(<<[k \in DOMAIN S_values |->
                                        backend_black_scholes_price(
                                            S_values[k], K, T, 500,
                                            vol_values[1], option_type)]>>)
                         ELSE body(<<[k \in DOMAIN S_values |->
                                        backend_calculate_all_greeks(
                                            S_values[k], K, T, 500,
                                            vol_values[1], option_type)]>>)
    /\ SolverIdle

\* plots.py:42-66, the dashboard's price curve, on the engine of
\* src/src/core and on whatever the caller passes: a ValueError at a point
\* gives NaN, any other exception ends the call.  The outcome's val is the
\* list `prices`.
plot_price_curve ==
    /\ fn = "idle"
    /\ \E S_range \in {<<ONE>>, <<0, ONE>>, <<9000, -ONE>>},
          K \in {ONE, 3 * ONE}, sigma \in {-2000, 10, 2000}, T \in {1, ONE},
          option_type \in {"call", "put"} :
           /\ fn' = "plot_price_curve"
           /\ args' = [kind |-> "plot_price_curve", S_values |-> S_range,
                       vol_values |-> <<sigma>>, K |-> K, r |-> 500,
                       T |-> T, option_type |-> option_type]
           /\ out' =
                LET point(o) ==
                        IF Returned(o) THEN [nan |-> FALSE, val |-> o.val]
                        ELSE [nan |-> TRUE, val |-> 0]
                    escaping(os) ==
                        {k \in DOMAIN os : /\ ~Returned(os[k])
                                           /\ os[k].exc # "ValueError"}
                    first(os, ks) == os[CHOOSE k \in ks : \A j \in ks : k <= j]
                    prices(os) ==
                        IF escaping(os) # {} THEN first(os, escaping(os))
                        ELSE Ret(<<[k \in DOMAIN os |-> point(os[k])]>>, <<>>)
                IN  prices([k \in DOMAIN S_range |->
                               black_scholes_price(S_range[k], K, T, 500,
                                                   sigma, option_type)])
    /\ SolverIdle

\* main.py:188-201, POST /api/price.  Only ValueError is caught.
calculate_price ==
    /\ fn = "idle"
    /\ \E S \in {0, 1, ONE}, K \in {ONE, 3 * ONE}, sigma \in {0, 10, 2000},
          T \in {0, 1, ONE}, option_type \in {"call", "put", "invalid"} :
           /\ fn' = "calculate_price"
           /\ args' = [S |-> S, K |-> K, T |-> T, r |-> 500, sigma |-> sigma,
                       option_type |-> option_type]
           /\ out' =
                IF ~FieldsValid(<<S>>, <<sigma>>, K, 500, T, option_type)
                THEN RaiseVal("HTTPException", "request validation", 422,
                              <<>>)
                ELSE LET answer(o) ==
                             IF o.exc = "ValueError"
                             THEN RaiseVal("HTTPException", o.msg, 422, <<>>)
                             ELSE IF ~Returned(o) THEN o
                             ELSE Ret([price |-> o.val], <<>>)
                     IN  answer(backend_black_scholes_price(
                                    S, K, T, 500, sigma, option_type))
    /\ SolverIdle

\* main.py:204-217, POST /api/greeks.  Only ValueError is caught.
calculate_greeks ==
    /\ fn = "idle"
    /\ \E S \in {0, 1, ONE}, K \in {ONE, 3 * ONE}, sigma \in {0, 10, 2000},
          T \in {0, 1, ONE}, option_type \in {"call", "put", "invalid"} :
           /\ fn' = "calculate_greeks"
           /\ args' = [S |-> S, K |-> K, T |-> T, r |-> 500, sigma |-> sigma,
                       option_type |-> option_type]
           /\ out' =
                IF ~FieldsValid(<<S>>, <<sigma>>, K, 500, T, option_type)
                THEN RaiseVal("HTTPException", "request validation", 422,
                              <<>>)
                ELSE LET answer(o) ==
                             IF o.exc = "ValueError"
                             THEN RaiseVal("HTTPException", o.msg, 422, <<>>)
                             ELSE IF ~Returned(o) THEN o
                             ELSE Ret(o.val, <<>>)
                     IN  answer(backend_calculate_all_greeks(
                                    S, K, T, 500, sigma, option_type))
    /\ SolverIdle

\* main.py:220-247, POST /api/implied-vol: the request enters the solver
\* with the default tol and max_iter (first disjunct, 223-230; a request the
\* schema rejects is answered at once), and when the solver has ended the
\* handler prices the option at the volatility found and answers (second
\* disjunct, 232-247).  The request has no sigma; a market_price within
\* [0, 10000] is the schema's constraint on the target.  Only ValueError is
\* caught.
calculate_implied_volatility ==
    \/ /\ fn = "idle"
       /\ pc = "idle"
       /\ \E S \in {0, 1234500}, K \in {1000300}, T \in {0, 4 * ONE},
             is_call \in BOOLEAN :
              \E market_price \in
                     TargetPrices(S, K, T, 500, OptionType(is_call)) :
                  IF /\ FieldsValid(<<S>>, <<0>>, K, 500, T,
                                    OptionType(is_call))
                     /\ market_price >= 0
                     /\ market_price <= MAX_PRICE
                  THEN Enter(market_price, S, K, 500, T, is_call, TOL_DEFAULT,
                             MaxIterLarge, 0)
                  ELSE /\ fn' = "calculate_implied_volatility"
                       /\ args' = IVArgs(market_price, S, K, 500, T, is_call,
                                         TOL_DEFAULT, MaxIterLarge, 0)
                       /\ out' = RaiseVal("HTTPException",
                                          "request validation", 422, <<>>)
                       /\ SolverIdle
    \/ /\ fn = "implied_vol_from_price"
       /\ out.exc # "pending"
       /\ fn' = "calculate_implied_volatility"
       /\ out' =
            LET answer(o) ==
                    IF o.exc = "ValueError"
                    THEN RaiseVal("HTTPException", o.msg, 422, <<>>)
                    ELSE o
                priced(implied_vol, o) ==
                    IF ~Returned(o) THEN answer(o)
                    ELSE Ret([implied_vol |-> implied_vol,
                              priced_with_iv |-> o.val], <<>>)
            IN  IF ~Returned(out) THEN answer(out)
                ELSE priced(out.val,
                            backend_black_scholes_price(
                                args.S, args.K, args.T, args.r, out.val,
                                args.option_type))
       /\ UNCHANGED <<args, pc, sigma_low, sigma_high, f_low, f_high, i,
                      sigma_guess, evals, parked, process>>

\* main.py:72-100, the body POST /price computes from the floats of the
\* payload: the check of the inputs, d1 and d2 and the discount factors,
\* price and Greeks by type, and `resp`.  _N (48-50) and _n (52-53) are the
\* local N and n.
price_resp(S, K, r, q, sigma, T, typ) ==
    IF sigma <= 0 \/ S <= 0 \/ K <= 0 \/ T <= 0
    THEN Raise("ValueError", "Invalid inputs", <<>>)
    ELSE LET N(x) == Mul(HALF, Add(ONE, Erf(Div(x, SQRT_2))))
             n(x) == Div(Exp(Mul(Mul(-HALF, x), x)), SQRT2PI)
             resp(px, delta_, rho_, theta_, nd1, df_q, sq, den) ==
                 IF den = 0
                 THEN Raise("ZeroDivisionError", "float division by zero",
                            <<>>)
                 ELSE Ret([price |-> px,
                           greeks |->
                               [delta |-> delta_,
                                gamma |-> Div(Mul(df_q, nd1), den),
                                vega |-> Mul(Mul(Mul(S, df_q), nd1), sq),
                                theta |-> theta_,
                                rho |-> rho_],
                           meta |-> [engine |-> "lazy-bs", ok |-> TRUE]],
                          <<>>)
             decay(nd1, df_q, sq) ==
                 Div(-Mul(Mul(Mul(S, df_q), nd1), sigma), Mul(2 * ONE, sq))
             typed(x1, x2, df_r, df_q, sq) ==
                 IF typ = "call"
                 THEN resp(Sub(Mul(Mul(S, df_q), N(x1)),
                               Mul(Mul(K, df_r), N(x2))),
                           Mul(df_q, N(x1)),
                           Mul(Mul(Mul(K, T), df_r), N(x2)),
                           Sub(Add(decay(n(x1), df_q, sq),
                                   Mul(Mul(Mul(q, S), df_q), N(-x1))),
                               Mul(Mul(Mul(r, K), df_r), N(x2))),
                           n(x1), df_q, sq, Mul(Mul(S, sigma), sq))
                 ELSE IF typ = "put"
                 THEN resp(Sub(Mul(Mul(K, df_r), N(-x2)),
                               Mul(Mul(S, df_q), N(-x1))),
                           Mul(-df_q, N(-x1)),
                           Mul(Mul(Mul(-K, T), df_r), N(-x2)),
                           Add(Add(decay(n(x1), df_q, sq),
                                   Mul(Mul(Mul(q, S), df_q), N(x1))),
                               Mul(Mul(Mul(r, K), df_r), N(-x2))),
                           n(x1), df_q, sq, Mul(Mul(S, sigma), sq))
                 ELSE Raise("ValueError", "type must be 'call' or 'put'",
                            <<>>)
             with_d1(x1, sq) ==
                 typed(x1, Sub(x1, Mul(sigma, sq)), Exp(Mul(-r, T)),
                       Exp(Mul(-q, T)), sq)
             quotient(lg, sq) ==
                 IF ~Returned(lg) THEN lg
                 ELSE IF Mul(sigma, sq) = 0
                 THEN Raise("ZeroDivisionError", "float division by zero",
                            <<>>)
                 ELSE with_d1(
                          Div(Add(lg.val,
                                  Mul(Add(Sub(r, q),
                                          Mul(Mul(HALF, sigma), sigma)), T)),
                              Mul(sigma, sq)),
                          sq)
         IN  quotient(d1_log(S, K), Sqrt(T))

\* A faulty POST /price that never looks its cache up: it computes every
\* request afresh and stores the new body under the key.
PostPrice_no_lookup ==
    /\ fn = "idle"
    /\ \E payload \in
              {[S |-> ONE, K |-> ONE, r |-> 500, T |-> ONE, type |-> "call"]}
              \cup [S : {-ONE, 1, ONE}, K : {3 * ONE}, r : {500},
                    sigma : {10, 2000}, T : {1, ONE},
                    type : {"call", "put", "swap"}],
          key \in {"", "k1"} :
           /\ fn' = "price"
           /\ args' = [payload |-> payload, idempotencyKey |-> key]
           /\ \E o \in {IF "sigma" \notin DOMAIN payload
                        THEN Raise("KeyError", "'sigma'", <<>>)
                        ELSE price_resp(payload.S, payload.K, payload.r, 0,
                                        payload.sigma, payload.T,
                                        payload.type)} :
                  /\ _engine_ready' = TRUE
                  /\ out' = IF ~Returned(o)
                            THEN RaiseVal("HTTPException", o.msg, 400, <<>>)
                            ELSE o
                  /\ _IDEMP_CACHE' =
                         IF Returned(o) /\ key # ""
                         THEN [k \in DOMAIN _IDEMP_CACHE \cup {key} |->
                                  IF k = key THEN o.val ELSE _IDEMP_CACHE[k]]
                         ELSE _IDEMP_CACHE
    /\ pc = "idle"
    /\ UNCHANGED <<pc, sigma_low, sigma_high, f_low, f_high, i, sigma_guess,
                   evals, parked>>

\* A faulty POST /price that translates only ValueError.
PostPrice_value_errors_only ==
    /\ fn = "idle"
    /\ \E payload \in
              {[S |-> ONE, K |-> ONE, r |-> 500, T |-> ONE, type |-> "call"]}
              \cup [S : {-ONE, 1, ONE}, K : {3 * ONE}, r : {500},
                    sigma : {10, 2000}, T : {1, ONE},
                    type : {"call", "put", "swap"}],
          key \in {"", "k1"} :
           /\ fn' = "price"
           /\ args' = [payload |-> payload, idempotencyKey |-> key]
           /\ IF key # "" /\ key \in DOMAIN _IDEMP_CACHE
              THEN /\ out' = Ret(_IDEMP_CACHE[key], <<>>)
                   /\ UNCHANGED process
              ELSE \E o \in {IF "sigma" \notin DOMAIN payload
                             THEN Raise("KeyError", "'sigma'", <<>>)
                             ELSE price_resp(payload.S, payload.K, payload.r,
                                             0, payload.sigma, payload.T,
                                             payload.type)} :
                       /\ _engine_ready' = TRUE
                       /\ out' = IF o.exc = "ValueError"
                                 THEN RaiseVal("HTTPException", o.msg, 400,
                                               <<>>)
                                 ELSE o
                       /\ _IDEMP_CACHE' =
                              IF Returned(o) /\ key # ""
                              THEN [k \in DOMAIN _IDEMP_CACHE \cup {key} |->
                                       IF k = key THEN o.val
                                       ELSE _IDEMP_CACHE[k]]
                              ELSE _IDEMP_CACHE
    /\ pc = "idle"
    /\ UNCHANGED <<pc, sigma_low, sigma_high, f_low, f_high, i, sigma_guess,
                   evals, parked>>

\* main.py:55-107, POST /price, the whole handler: the answer cached under
\* the request's idempotencyKey if there is one (58-60), get_engine (62,
\* 35-43), the floats of the payload (64-70; a missing key is a KeyError, q
\* is left to its default 0.0), the body, the store under the key (103-104),
\* and every exception answered 400 with its text (106-107).  The key "" is
\* a payload without idempotencyKey.
PostPrice ==
    /\ fn = "idle"
    /\ \E payload \in
              {[S |-> ONE, K |-> ONE, r |-> 500, T |-> ONE, type |-> "call"]}
              \cup [S : {-ONE, 1, ONE}, K : {3 * ONE}, r : {500},
                    sigma : {10, 2000}, T : {1, ONE},
                    type : {"call", "put", "swap"}],
          key \in {"", "k1"} :
           /\ fn' = "price"
           /\ args' = [payload |-> payload, idempotencyKey |-> key]
           /\ IF key # "" /\ key \in DOMAIN _IDEMP_CACHE
              THEN /\ out' = Ret(_IDEMP_CACHE[key], <<>>)
                   /\ UNCHANGED process
              ELSE \E o \in {IF "sigma" \notin DOMAIN payload
                             THEN Raise("KeyError", "'sigma'", <<>>)
                             ELSE price_resp(payload.S, payload.K, payload.r,
                                             0, payload.sigma, payload.T,
                                             payload.type)} :
                       /\ _engine_ready' = TRUE
                       /\ out' = IF ~Returned(o)
                                 THEN RaiseVal("HTTPException", o.msg, 400,
                                               <<>>)
                                 ELSE o
                       /\ _IDEMP_CACHE' =
                              IF Returned(o) /\ key # ""
                              THEN [k \in DOMAIN _IDEMP_CACHE \cup {key} |->
                                       IF k = key THEN o.val
                                       ELSE _IDEMP_CACHE[k]]
                              ELSE _IDEMP_CACHE
    /\ pc = "idle"
    /\ UNCHANGED <<pc, sigma_low, sigma_high, f_low, f_high, i, sigma_guess,
                   evals, parked>>

NextApi ==
    \/ PostPrice
    \/ calculate_price
    \/ calculate_greeks
    \/ calculate_implied_volatility
    \/ Bracket
    \/ BisectStep
    \/ BisectEnd
    \/ NewtonStep
    \/ NewtonEnd
    \/ ChartsApi
    \/ MainCharts
    \/ plot_price_curve
    \/ Done

SpecApi == Init /\ [][NextApi]_vars

\* C19: a sweep over n points answers with exactly n outputs in input order
\* (one row per volatility for a heatmap): NaN where the engine fails at the
\* point, the engine's value everywhere else, and never an error for the
\* whole request because a point failed.
C19_SweepKeepsEveryPoint ==
    (/\ fn \in {"charts_api", "main", "plot_price_curve"}
     /\ out.exc # "pending"
     /\ \/ fn = "plot_price_curve"
        \/ FieldsValid(args.S_values, args.vol_values, args.K, args.r, args.T,
                       args.option_type))
        => LET sigma(v) == IF args.kind = "generate_price_heatmap"
                           THEN args.vol_values[v] ELSE args.vol_values[1]
               core(k, v) ==
                   IF fn = "plot_price_curve"
                   THEN black_scholes_price(args.S_values[k], args.K, args.T,
                                            args.r, sigma(v), args.option_type)
                   ELSE IF args.kind = "generate_greeks_curves"
                   THEN backend_calculate_all_greeks(
                            args.S_values[k], args.K, args.T, args.r,
                            sigma(v), args.option_type)
                   ELSE backend_black_scholes_price(
                            args.S_values[k], args.K, args.T, args.r,
                            sigma(v), args.option_type)
               kept(p, o) == IF Returned(o) THEN ~p.nan /\ p.val = o.val
                             ELSE p.nan
               rows == IF args.kind = "generate_price_heatmap"
                       THEN Len(args.vol_values) ELSE 1
           IN  /\ Returned(out)
               /\ Len(out.val) = rows
               /\ \A v \in DOMAIN out.val :
                      /\ Len(out.val[v]) = Len(args.S_values)
                      /\ \A k \in DOMAIN out.val[v] :
                             kept(out.val[v][k], core(k, v))

C21_SameKeySameBody ==
    [][/\ \A k \in DOMAIN _IDEMP_CACHE :
              /\ k # ""
              /\ k \in DOMAIN _IDEMP_CACHE'
              /\ _IDEMP_CACHE'[k] = _IDEMP_CACHE[k]
       /\ (fn = "idle" /\ fn' = "price")
              => /\ args'.idempotencyKey \in DOMAIN _IDEMP_CACHE
                     => /\ out' = Ret(_IDEMP_CACHE[args'.idempotencyKey], <<>>)
                        /\ UNCHANGED process
                 /\ args'.idempotencyKey = ""
                     => _IDEMP_CACHE' = _IDEMP_CACHE
                 /\ (Returned(out') /\ args'.idempotencyKey # "")
                     => /\ args'.idempotencyKey \in DOMAIN _IDEMP_CACHE'
                        /\ _IDEMP_CACHE'[args'.idempotencyKey] = out'.val]_vars

\* A request whose payload has no sigma, and could not be priced, answered
\* with the body stored under its key.
C21_Witness ==
    /\ fn = "price"
    /\ args.idempotencyKey = "k1"
    /\ "sigma" \notin DOMAIN args.payload
    /\ Returned(out)
    /\ out.val = _IDEMP_CACHE["k1"]

-----------------------------------------------------------------------------
(* POST /price under concurrent requests.  The handler is a plain `def`,    *)
(* which the server runs on worker threads; get_engine takes _engine_lock   *)
(* (35-43), the cache is read and written outside it.  The computation      *)
(* between the lookup and the store touches nothing shared, so a request    *)
(* is two steps: the lookup with the computation, and the store.           *)

\* main.py:55-102, up to `resp`: the lookup of the key (58-60), get_engine,
\* and the body.  A hit, a failure and a request without a key end the
\* request here; otherwise the body waits in out.val to be stored.
PriceLookup ==
    /\ fn = "idle"
    /\ pc = "idle"
    /\ \E payload \in [S : {-ONE, ONE}, K : {ONE}, r : {500},
                       sigma : {2000}, T : {ONE}, type : {"call", "put"}],
          key \in {"", "k1", "k2"} :
           /\ fn' = "price"
           /\ args' = [payload |-> payload, idempotencyKey |-> key]
           /\ IF key # "" /\ key \in DOMAIN _IDEMP_CACHE
              THEN /\ out' = Ret(_IDEMP_CACHE[key], <<>>)
                   /\ UNCHANGED <<pc, _engine_ready>>
              ELSE \E o \in {price_resp(payload.S, payload.K, payload.r, 0,
                                        payload.sigma, payload.T,
                                        payload.type)} :
                       /\ _engine_ready' = TRUE
                       /\ out' = IF ~Returned(o)
                                 THEN RaiseVal("HTTPException", o.msg, 400,
                                               <<>>)
                                 ELSE IF key = "" THEN o
                                 ELSE [Pending EXCEPT !.val = o.val]
                       /\ pc' = IF Returned(o) /\ key # "" THEN "store"
                                ELSE "idle"
    /\ UNCHANGED <<_IDEMP_CACHE, sigma_low, sigma_high, f_low, f_high, i,
                   sigma_guess, evals, parked>>

\* main.py:103-105: `_IDEMP_CACHE[key] = resp` and the return.
PriceStore ==
    /\ fn = "price"
    /\ pc = "store"
    /\ _IDEMP_CACHE' =
           [k \in DOMAIN _IDEMP_CACHE \cup {args.idempotencyKey} |->
               IF k = args.idempotencyKey THEN out.val ELSE _IDEMP_CACHE[k]]
    /\ out' = Ret(out.val, <<>>)
    /\ pc' = "idle"
    /\ UNCHANGED <<fn, args, sigma_low, sigma_high, f_low, f_high, i,
                   sigma_guess, evals, parked, _engine_ready>>

NextPriceRace ==
    \/ PriceLookup
    \/ PriceStore
    \/ Switch
    \/ Done

SpecPriceRace == Init /\ [][NextPriceRace]_vars

\* C22: two requests with different idempotencyKeys and the same pricing
\* inputs are answered with different bodies.
C22_DifferentKeysDifferentBodies ==
    (/\ fn = "price"
     /\ parked.fn = "price"
     /\ Returned(out)
     /\ Returned(parked.out)
     /\ args.idempotencyKey # ""
     /\ parked.args.idempotencyKey # ""
     /\ args.idempotencyKey # parked.args.idempotencyKey
     /\ args.payload = parked.args.payload)
        => out.val # parked.out.val

\* C30: however the requests interleave, an entry of the cache is never
\* replaced by a different body, every body answered for a key is the one
\* stored under it, and a request answered 400 leaves the cache as it is.
C30_CacheConsistent ==
    [][LET answered(f, a, o) ==
               (f = "price" /\ Returned(o) /\ a.idempotencyKey # "")
                   => /\ a.idempotencyKey \in DOMAIN _IDEMP_CACHE'
                      /\ _IDEMP_CACHE'[a.idempotencyKey] = o.val
       IN  /\ \A k \in DOMAIN _IDEMP_CACHE :
                  /\ k \in DOMAIN _IDEMP_CACHE'
                  /\ _IDEMP_CACHE'[k] = _IDEMP_CACHE[k]
           /\ answered(fn', args', out')
           /\ answered(parked'.fn, parked'.args, parked'.out)
           /\ (fn = "idle" /\ fn' = "price" /\ out'.exc = "HTTPException")
                  => _IDEMP_CACHE' = _IDEMP_CACHE]_vars

-----------------------------------------------------------------------------
(* The two engines side by side: src/src/core and backend/src/core.        *)

\* Where the formulas of src/src/core/normals.py reach exactly 0.0 and 1.0
\* in doubles, which is far below the resolution of the values above:
\* exp(-0.5*x*x)/SQRT2PI is 0.0 from |x| = 38.5756 on, 0.5*(1.0 + erf(x /
\* SQRT_2)) is 1.0 from x = 8.2441 on and 0.0 from x = -8.3744 down.
PDF_ZERO_ARG == 385755
CDF_ONE_ARG == 82440
CDF_ZERO_ARG == 83744

\* normal_pdf and normal_cdf of one engine at x.  The outcome holds the two
\* values and, for the extremes, whether the double the engine returns is
\* exactly 0.0 or 1.0: by its clamps (backend normals.py:31-32, 57-60) or
\* by the arithmetic of the formula.
CallNormals ==
    /\ fn = "idle"
    /\ \E x \in {sign * m : sign \in {-1, 1},
                            m \in {0, 5000, ONE, 3 * ONE, MAX_CDF_ARG,
                                   MAX_CDF_ARG + 1, 81000, 83000, 84000,
                                   MAX_PDF_ARG, MAX_PDF_ARG + 1, 375000,
                                   380000, 390000, 5 * 10^7}},
          engine \in {"core", "backend"} :
           /\ fn' = "normals"
           /\ args' = [x |-> x, engine |-> engine]
           /\ out' = Ret([pdf |-> IF engine = "core" THEN normal_pdf(x)
                                  ELSE backend_normal_pdf(x),
                          cdf |-> IF engine = "core" THEN normal_cdf(x)
                                  ELSE backend_normal_cdf(x),
                          pdf_is_zero |->
                              \/ Abs(x) > PDF_ZERO_ARG
                              \/ engine = "backend" /\ Abs(x) > MAX_PDF_ARG,
                          cdf_is_one |->
                              \/ x > CDF_ONE_ARG
                              \/ engine = "backend" /\ x > MAX_CDF_ARG,
                          cdf_is_zero |->
                              \/ x < -CDF_ZERO_ARG
                              \/ engine = "backend" /\ x < -MAX_CDF_ARG],
                         <<>>)
    /\ SolverIdle

\* One function of the two engines on the same arguments: the outcome holds
\* the outcome of src/src/core and that of backend/src/core.  d2 takes
\* d1_value, sigma and T only.
CallEngines ==
    /\ fn = "idle"
    /\ \E f \in {"price_call", "price_put", "d1", "d2", "delta", "gamma",
                 "vega", "theta", "rho"},
          S \in {-ONE, 1, 9000, ONE}, K \in {ONE, 11000}, T \in {0, 1, ONE},
          sigma \in {0, 10, 2000, 6 * ONE}, option_type \in {"call", "put"},
          d1_value \in {-5000, 0, 5000} :
           /\ f = "d2" => (S = ONE /\ K = ONE /\ option_type = "call")
           /\ f # "d2" => d1_value = 0
           /\ f \in {"price_call", "price_put", "d1", "gamma", "vega"}
                  => option_type = "call"
           /\ fn' = "engines"
           /\ args' = [f |-> f, S |-> S, K |-> K, T |-> T, r |-> 500,
                       sigma |-> sigma, option_type |-> option_type,
                       d1_value |-> d1_value]
           /\ out' =
                Ret(CASE f = "price_call" ->
                             [core |-> price_call(S, K, T, 500, sigma),
                              backend |->
                                  backend_price_call(S, K, T, 500, sigma)]
                      [] f = "price_put" ->
                             [core |-> price_put(S, K, T, 500, sigma),
                              backend |->
                                  backend_price_put(S, K, T, 500, sigma)]
                      [] f = "d1" ->
                             [core |-> d1(S, K, 500, sigma, T),
                              backend |-> backend_d1(S, K, 500, sigma, T)]
                      [] f = "d2" ->
                             [core |-> d2(d1_value, sigma, T),
                              backend |-> backend_d2(d1_value, sigma, T)]
                      [] f = "delta" ->
                             [core |-> delta(S, K, T, 500, sigma, option_type),
                              backend |-> backend_delta(S, K, T, 500, sigma,
                                                        option_type)]
                      [] f = "gamma" ->
                             [core |-> gamma(S, K, T, 500, sigma),
                              backend |-> backend_gamma(S, K, T, 500, sigma)]
                      [] f = "vega" ->
                             [core |-> vega(S, K, T, 500, sigma),
                              backend |-> backend_vega(S, K, T, 500, sigma)]
                      [] f = "theta" ->
                             [core |-> theta(S, K, T, 500, sigma, option_type),
                              backend |-> backend_theta(S, K, T, 500, sigma,
                                                        option_type)]
                      [] f = "rho" ->
                             [core |-> rho(S, K, T, 500, sigma, option_type),
                              backend |-> backend_rho(S, K, T, 500, sigma,
                                                      option_type)],
                    <<>>)
    /\ SolverIdle

NextEngines ==
    \/ CallNormals
    \/ CallEngines
    \/ Done

SpecEngines == Init /\ [][NextEngines]_vars

\* C23: beyond |x| = 37 normal_pdf is exactly 0.0, beyond x = 8 normal_cdf is
\* exactly 1.0 and below x = -8 exactly 0.0; within the thresholds the two
\* are exp(-x^2/2)/sqrt(2*pi) and 0.5*(1+erf(x/sqrt(2))); no finite x fails.
C23_ClampedNormals ==
    (fn = "normals" /\ out.exc # "pending")
        => /\ Returned(out)
           /\ Abs(args.x) > MAX_PDF_ARG
                  => (out.val.pdf_is_zero /\ out.val.pdf = 0)
           /\ args.x > MAX_CDF_ARG
                  => (out.val.cdf_is_one /\ out.val.cdf = ONE)
           /\ args.x < -MAX_CDF_ARG
                  => (out.val.cdf_is_zero /\ out.val.cdf = 0)
           /\ Abs(args.x) <= MAX_PDF_ARG
                  => out.val.pdf
                         = Div(Exp(Mul(Mul(-HALF, args.x), args.x)), SQRT2PI)
           /\ Abs(args.x) <= MAX_CDF_ARG
                  => out.val.cdf
                         = Mul(HALF, Add(ONE, Erf(Div(args.x, SQRT_2))))

\* C24: normal_pdf(-x) = normal_pdf(x) and normal_cdf(-x) = 1 - normal_cdf(x)
\* for the clamped primitives at every finite x, the thresholds 8 and 37 and
\* the arguments beyond them included.
C24_NormalsSymmetric ==
    (fn = "normals" /\ args.engine = "backend" /\ out.exc # "pending")
        => /\ Returned(out)
           /\ backend_normal_pdf(-args.x) = out.val.pdf
           /\ backend_normal_cdf(-args.x) = Sub(ONE, out.val.cdf)

\* The clamped normal_cdf just beyond its threshold, where it is the constant
\* 1.0 on one side and 0.0 on the other.
C24_Witness ==
    /\ fn = "normals"
    /\ args.engine = "backend"
    /\ args.x = MAX_CDF_ARG + 1
    /\ Returned(out)
    /\ out.val.cdf = ONE
    /\ out.val.cdf_is_one

\* C29: on the arguments within the bounds of backend/src/core, each of
\* price_call, price_put, d1, d2, delta, gamma, vega, theta and rho has the
\* same outcome in the two engines: the same value, or a failure in both.
C29_EnginesAgree ==
    (/\ fn = "engines"
     /\ out.exc # "pending"
     /\ args.sigma >= 0
     /\ args.sigma <= MAX_VOL
     /\ args.T >= 0
     /\ args.T <= MAX_TIME
     /\ args.f # "d2"
            => /\ args.S > 0
               /\ args.S <= MAX_PRICE
               /\ args.K > 0
               /\ args.K <= MAX_PRICE
               /\ args.r >= MIN_RATE
               /\ args.r <= MAX_RATE)
        => /\ Returned(out.val.core) = Returned(out.val.backend)
           /\ Returned(out.val.core)
                  => out.val.core.val = out.val.backend.val

C26_BracketingOrder ==
    [][(pc = "bracket" /\ pc' \in {"bisect", "raise_bracket"})
          => LET positive(lo, hi) ==
                     \/ F(lo).val > 0 /\ F(hi).val > 0
                     \/ F(lo).val < 0 /\ F(hi).val < 0
                 starts(lo, hi, n) ==
                     /\ pc' = "bisect"
                     /\ sigma_low' = lo
                     /\ sigma_high' = hi
                     /\ f_low' = F(lo).val
                     /\ f_high' = F(hi).val
                     /\ evals' = evals + n
                     /\ out' = out
             IN  IF ~positive(SIGMA_LOW_0, SIGMA_HIGH_0)
                 THEN starts(SIGMA_LOW_0, SIGMA_HIGH_0, 2)
                 ELSE IF ~positive(SIGMA_LOW_1, SIGMA_HIGH_0)
                 THEN starts(SIGMA_LOW_1, SIGMA_HIGH_0, 3)
                 ELSE IF ~positive(SIGMA_LOW_1, SIGMA_HIGH_1)
                 THEN starts(SIGMA_LOW_1, SIGMA_HIGH_1, 4)
                 ELSE /\ pc' = "raise_bracket"
                      /\ out'.exc = "ValueError"
                      /\ out'.msg = "Cannot find valid volatility bracket"
                      /\ evals' = evals + 4]_vars

\* A bisection that starts from a widened bracket.
C26_Witness ==
    /\ fn = "implied_vol_from_price"
    /\ pc = "bisect"
    /\ i = 0
    /\ sigma_low = SIGMA_LOW_1
    /\ f_low * f_high <= 0

\* C27: throughout the bisection the root stays bracketed.  Whenever the
\* bisection is entered or has made an iteration, sigma_low < sigma_high,
\* f_low and f_high are f at these ends and their product is not positive;
\* an iteration moves exactly one end to the midpoint, which lies strictly
\* between the ends, and leaves the other end alone; a value returned by
\* the bisection lies inside the bracket of the iteration that returns it,
\* which lies inside every bracket before it.
C27_RootStaysBracketed ==
    [][/\ (pc \in {"bracket", "bisect"} /\ pc' = "bisect")
            => /\ sigma_low' < sigma_high'
               /\ f_low' = F(sigma_low').val
               /\ f_high' = F(sigma_high').val
               /\ ~(\/ f_low' > 0 /\ f_high' > 0
                    \/ f_low' < 0 /\ f_high' < 0)
       /\ (pc = "bisect" /\ pc' = "bisect" /\ i' = i + 1)
            => /\ sigma_low < Midpoint(sigma_low, sigma_high)
               /\ Midpoint(sigma_low, sigma_high) < sigma_high
               /\ \/ /\ sigma_low' = Midpoint(sigma_low, sigma_high)
                     /\ sigma_high' = sigma_high
                  \/ /\ sigma_high' = Midpoint(sigma_low, sigma_high)
                     /\ sigma_low' = sigma_low
       /\ (pc = "bisect" /\ pc' = "return_bisect")
            => /\ Returned(out')
               /\ sigma_low < out'.val
               /\ out'.val < sigma_high
               /\ SIGMA_LOW_1 <= sigma_low
               /\ sigma_high <= SIGMA_HIGH_1]_vars

\* C28: the Newton phase starts at the midpoint of the bracket the bisection
\* left, and its iterate is strictly positive at every step: the next
\* iterate is sigma - f / vega, or half of sigma where that is not positive.
\* It divides by vega only where |vega| >= 1e-12; where |f| >= tol and
\* |vega| < 1e-12 it returns the midpoint of the final bisection bracket
\* and makes no step.
C28_NewtonStaysPositive ==
    [][LET f_val == F(sigma_guess).val
           vega_val == _vega_function(args.S, args.K, args.T, args.r,
                                      sigma_guess).val
           stepped(sigma_new) ==
               /\ Abs(vega_val) >= VEGA_EPS
               /\ sigma_new > 0
               /\ \E raw \in {Sub(sigma_guess, Div(f_val, vega_val))} :
                      sigma_new = IF raw > 0 THEN raw
                                  ELSE Div(sigma_guess, 2 * ONE)
       IN  /\ (pc = "bisect" /\ pc' = "newton")
                => /\ sigma_guess' = Midpoint(sigma_low, sigma_high)
                   /\ sigma_guess' > 0
           /\ (pc = "newton" /\ pc' = "newton" /\ i' = i + 1)
                => /\ sigma_guess' > 0
                   /\ stepped(sigma_guess')
           /\ (pc = "newton" /\ pc' = "return_step")
                => stepped(out'.val)
           /\ (pc = "newton" /\ pc' = "return_vega")
                => /\ Abs(vega_val) < VEGA_EPS
                   /\ out' = Ret(Midpoint(sigma_low, sigma_high), <<>>)
                   /\ sigma_guess' = sigma_guess
           /\ (pc = "newton" /\ pc' \notin {"newton", "raise_converge"}
                 /\ Abs(f_val) >= args.tol /\ Abs(vega_val) < VEGA_EPS)
                => pc' = "return_vega"]_vars

\* The first Newton iteration has halved the bisection's midpoint, the step
\* from it not being positive.
C28_Witness ==
    /\ fn = "implied_vol_from_price"
    /\ pc = "newton"
    /\ i = 1
    /\ sigma_guess > 0
    /\ sigma_guess = Div(Midpoint(sigma_low, sigma_high), 2 * ONE)
    /\ \E start \in {Midpoint(sigma_low, sigma_high)} :
           \E f_val \in {_price_function(args.S, args.K, args.T, args.r, start,
                                         args.option_type, args.price).val},
              vega_val \in {_vega_function(args.S, args.K, args.T, args.r,
                                           start).val} :
               /\ Abs(vega_val) >= VEGA_EPS
               /\ Sub(start, Div(f_val, vega_val)) <= 0

-----------------------------------------------------------------------------
(* Every call of the core.                                                 *)

Next == NextPrice \/ NextIV \/ NextGreeks

Spec == Init /\ [][Next]_vars

=============================================================================
